---- MODULE Spec2Model ----
(***************************************************************************)
(* Model of the AEO audit tool's Site Snapshot Pipeline:                   *)
(*   - lib/crawler.js            the bounded depth-first crawler           *)
(*   - key page detector         detectKeyPages                            *)
(*   - content coverage checker  analyzeContentCoverage                    *)
(*                                                                         *)
(* URL strings are modelled as sequences of tokens: a host token, then     *)
(* path tokens, then an optional fragment token, e.g.                      *)
(*   "https://h"        is  <<"https://h">>                                *)
(*   "https://h/"       is  <<"https://h", "/">>                           *)
(*   "https://h/a#f"    is  <<"https://h", "/a", "#f">>                    *)
(* String equality is equality of token sequences.                         *)
(***************************************************************************)
EXTENDS Integers, Sequences, FiniteSets, TLC

VARIABLES
    START_URL,   \* crawler.js: process.argv[2], the seed as typed
    site,        \* the name of the web site being crawled
    visited,     \* crawler.js: const visited = new Set()
    pages,       \* crawler.js: const pages = []
    stack,       \* call stack of the recursive async function crawl
    failures,    \* number of fetches that have thrown so far
    ev,          \* the last step taken by the crawler
    snapshot,    \* crawler.js main: the snapshot written, <<>> before
    kpInput,     \* key page detector: the pages argument of detectKeyPages
    kpOutput,    \* key page detector: <<>>, or <<the key pages returned>>
    ccSnapshot,  \* content coverage: the siteSnapshot argument
    ccResult,    \* content coverage: <<>>, or <<the value returned>>
    anSnapshot,  \* analyzers: the content of data/site_snapshot.json
    anCustomer,  \* analyzers: the content of data/customer.json
    anResults,   \* analyzers: per analyzer <<>>, or <<the result it wrote>>
    monConfig,   \* monitoring: <<>>, or <<content of config/monitoring.json>>
    monFiles,    \* monitoring: per baseline path <<>>, or <<file content>>
    monClock,    \* monitoring: the number of operations so far, used as time
    monLast,     \* monitoring: the last operation, its argument and result
    monLog,      \* monitoring: every history entry written, in call order
    mcProc,      \* monitoring: the state of each concurrent check process
    sdHtml,      \* structured data: the HTML document of a page
    sdOutput,    \* structured data: <<>>, or <<what the extractors return>>
    vjInput,     \* verifiers: the files and the library validateJsonFile meets
    vjOutput,    \* verifiers: <<>>, or <<the outcome of validateJsonFile>>
    enWeb,       \* enrichment: the pages of the site, as [url, status, doc]
    enFile,      \* enrichment: the content of data/site_snapshot.json
    enCol,       \* enrichment: the run of the structured data collector
    enLog        \* enrichment: the programs that have run, in order

crawlVars == <<START_URL, site, visited, pages, stack, failures, ev, snapshot>>
kpVars == <<kpInput, kpOutput>>
ccVars == <<ccSnapshot, ccResult>>
anVars == <<anSnapshot, anCustomer, anResults>>
monVars == <<monConfig, monFiles, monClock, monLast, monLog, mcProc>>
sdVars == <<sdHtml, sdOutput>>
vjVars == <<vjInput, vjOutput>>
enVars == <<enWeb, enFile, enCol, enLog>>
restVars == <<anVars, monVars, sdVars, vjVars, enVars>>
vars == <<crawlVars, kpVars, ccVars, restVars>>
nonCrawlVars == <<kpVars, ccVars, restVars>>

----------------------------------------------------------------------------
(* Bounds *)

MaxFailures == 2     \* fetches that may throw in one crawl

----------------------------------------------------------------------------
(* Program constants *)

MAX_PAGES == 10

----------------------------------------------------------------------------
(* URL strings *)

HostH == "https://h"
HostX == "https://x"
FragTokens == {"#f"}

\* new URL(u).hostname
Hostname(u) == u[1]

\* new URL(u).href for an absolute URL string u: an empty path becomes "/",
\* the fragment is kept.
Href(u) ==
    IF Len(u) = 1 THEN <<u[1], "/">>
    ELSE IF u[2] \in FragTokens THEN <<u[1], "/">> \o Tail(u)
    ELSE u

\* The page a URL string denotes: its href without the fragment.  This is
\* what the HTTP request for the URL asks the server for.
Normalize(u) ==
    LET h == Href(u)
    IN  IF h[Len(h)] \in FragTokens THEN SubSeq(h, 1, Len(h) - 1) ELSE h

----------------------------------------------------------------------------
(* HTML documents.  A document is the list of its href attribute values,   *)
(* in source order, plus the content the page extractor reads.             *)
(* An href value is [kind, url]:                                           *)
(*   "abs"  an absolute URL (possibly without a path)                      *)
(*   "rel"  a path relative to the host, url is the path and fragment      *)
(*   "anchor", "javascript", "mailto", "tel"  the prefixes the code skips  *)
(*   "invalid"  a value new URL() throws on                                *)

Abs(u) == [kind |-> "abs", url |-> u]
Rel(p) == [kind |-> "rel", url |-> p]
Other(k) == [kind |-> k, url |-> <<>>]

\* crawler.js extractLinks, the href.startsWith tests
SkippedHref(href) == href.kind \in {"anchor", "javascript", "mailto", "tel"}

\* crawler.js extractLinks: new URL(href, base).href; <<>> when it throws
ResolveHref(href, base) ==
    IF href.kind = "abs" THEN Href(href.url)
    ELSE IF href.kind = "rel" THEN <<Hostname(base)>> \o href.url
    ELSE <<>>

\* [...new Set(links)]: first occurrences, in order
RECURSIVE Dedupe(_)
Dedupe(s) ==
    IF s = <<>> THEN <<>>
    ELSE LET front == Dedupe(SubSeq(s, 1, Len(s) - 1))
             last == s[Len(s)]
         IN  IF \E i \in 1..Len(front) : front[i] = last
             THEN front ELSE Append(front, last)

\* crawler.js extractLinks: the links array before deduplication
RECURSIVE CollectLinks(_, _)
CollectLinks(hrefs, base) ==
    IF hrefs = <<>> THEN <<>>
    ELSE LET href == Head(hrefs)
             rest == CollectLinks(Tail(hrefs), base)
             resolvedUrl == ResolveHref(href, base)
         IN  IF SkippedHref(href) THEN rest
             ELSE IF resolvedUrl = <<>> THEN rest
             ELSE IF Hostname(resolvedUrl) = Hostname(base)
                  THEN <<resolvedUrl>> \o rest
                  ELSE rest

extractLinks(html, base) == Dedupe(CollectLinks(html.hrefs, base))

----------------------------------------------------------------------------
(* Text.  A string is modelled by its length and its length after trim(). *)

Text(n, t) == [len |-> n, tlen |-> t]
EmptyText == Text(0, 0)
Trim(t) == Text(t.tlen, t.tlen)

RECURSIVE MapTrim(_)
MapTrim(ts) == IF ts = <<>> THEN <<>> ELSE <<Trim(Head(ts))>> \o MapTrim(Tail(ts))

\* JSON values found in JSON-LD blocks: an object with its '@type' and
\* '@context' members ("" when the member is absent), an array, or the
\* literal null
JsonLd(type, context) ==
    [json |-> "object", at_type |-> type, at_context |-> context]
JsonArray == [json |-> "array", at_type |-> "", at_context |-> ""]
JsonNull == [json |-> "null"]
SchemaOrg == "https://schema.org"

\* a <script type="application/ld+json"> block: one whose text JSON.parse
\* accepts, with the value parsed, or one it throws on
ValidBlock(value) == [valid |-> TRUE, data |-> value]
MalformedBlock == [valid |-> FALSE]

\* crawler.js extractMeta, the JSON-LD loop: JSON.parse of each block, a
\* block that does not parse is skipped
RECURSIVE ParseJsonLd(_)
ParseJsonLd(blocks) ==
    IF blocks = <<>> THEN <<>>
    ELSE IF Head(blocks).valid
         THEN <<Head(blocks).data>> \o ParseJsonLd(Tail(blocks))
         ELSE ParseJsonLd(Tail(blocks))

\* crawler.js extractMeta, the image loop: an <img> tag is [src, alt] where
\* src is <<>> or <<text>> and alt is <<>> (no alt attribute) or <<text>>
RECURSIVE ExtractImages(_)
ExtractImages(imgs) ==
    IF imgs = <<>> THEN <<>>
    ELSE LET tag == Head(imgs)
             rest == ExtractImages(Tail(imgs))
             alt == IF tag.alt = <<>> THEN EmptyText ELSE tag.alt[1]
             img == [src |-> tag.src, alt |-> alt, has_alt |-> alt.len > 0]
         IN  IF tag.src # <<>> THEN <<img>> \o rest ELSE rest

\* crawler.js extractMeta
extractMeta(html) ==
    [ title            |-> IF html.title = <<>> THEN EmptyText
                           ELSE Trim(html.title[1]),
      meta_description |-> IF html.desc = <<>> THEN EmptyText
                           ELSE Trim(html.desc[1]),
      h1               |-> MapTrim(html.h1),
      h2               |-> MapTrim(html.h2),
      h3               |-> MapTrim(html.h3),
      structured_data  |-> ParseJsonLd(html.jsonld),
      word_count       |-> html.words,
      images           |-> ExtractImages(html.imgs),
      internal_links   |-> 0,
      external_links   |-> 0 ]

----------------------------------------------------------------------------
(* The crawler *)

\* allLinks.filter(l => new URL(l).hostname === baseUrl.hostname)
RECURSIVE FilterHost(_, _)
FilterHost(links, host) ==
    IF links = <<>> THEN <<>>
    ELSE IF Hostname(Head(links)) = host
         THEN <<Head(links)>> \o FilterHost(Tail(links), host)
         ELSE FilterHost(Tail(links), host)

\* Array.prototype.slice(0, n)
Slice0(s, n) ==
    IF n <= 0 THEN <<>> ELSE IF n >= Len(s) THEN s ELSE SubSeq(s, 1, n)

\* crawl, lines 157-166: the record of a fetched page
PageData(url, response, baseUrl) ==
    LET meta == extractMeta(response.html)
        allLinks == extractLinks(response.html, url)
        internal == Len(FilterHost(allLinks, Hostname(baseUrl)))
    IN  [ url |-> url,
          status_code |-> response.status,
          title |-> meta.title,
          meta_description |-> meta.meta_description,
          h1 |-> meta.h1, h2 |-> meta.h2, h3 |-> meta.h3,
          structured_data |-> meta.structured_data,
          word_count |-> meta.word_count,
          images |-> meta.images,
          internal_links |-> internal,
          external_links |-> Len(allLinks) - internal ]

\* crawl, lines 171-172: the links the for loop iterates over; ps is pages
\* after the push of line 168
LoopLinks(url, response, baseUrl, ps) ==
    LET allLinks == extractLinks(response.html, url)
        internalLinks == FilterHost(allLinks, Hostname(baseUrl))
    IN  Slice0(internalLinks, MAX_PAGES - Len(ps))

\* a catch branch that records the status without the error message
ErrorRecord_NoMessage(url, message) == [url |-> url, status_code |-> 0]

\* crawl, lines 180-184: the record pushed by the catch branch
ErrorRecord(url, message) ==
    [url |-> url, status_code |-> 0, error |-> message]

\* a guard that does not test the page budget
BudgetReached_Unchecked(ps) == FALSE

\* crawl, line 148: pages.length >= MAX_PAGES
BudgetReached(ps) == Len(ps) >= MAX_PAGES

\* crawl, line 148: visited.has(url)
AlreadyVisited(vs, url) == url \in vs

\* the call stack after crawl returns to its caller
Return(stk) == SubSeq(stk, 1, Len(stk) - 1)

\* a catch branch that rethrows: the error unwinds every caller
AfterCatch_Rethrow(stk) == <<>>

\* crawl, lines 178-186: the call stack after the catch branch has run; the
\* error is consumed and the function returns normally to its caller
AfterCatch(stk) == Return(stk)

Frame(url) == [url |-> url, pc |-> "entry", links |-> <<>>, i |-> 1]
Top == stack[Len(stack)]
SetTop(f) == [stack EXCEPT ![Len(stack)] = f]

----------------------------------------------------------------------------
(* The sites crawled.  A site maps the page a request asks for to the      *)
(* response of the server: the HTTP status and the HTML document.          *)

Root == <<HostH, "/">>
PageOf(p) == <<HostH, p>>

\* a page whose extractor-visible content is complete
RichDoc(hrefs) ==
    [ hrefs |-> hrefs,
      title |-> <<Text(12, 10)>>, desc |-> <<Text(60, 60)>>,
      h1 |-> <<Text(8, 8)>>, h2 |-> <<Text(6, 6)>>, h3 |-> <<>>,
      jsonld |-> << ValidBlock(JsonLd("Organization", SchemaOrg)),
                    MalformedBlock >>,
      imgs |-> << [src |-> <<"logo.png">>, alt |-> <<Text(4, 4)>>],
                  [src |-> <<>>, alt |-> <<>>] >>,
      words |-> 120 ]

\* a page with links only
BareDoc(hrefs) ==
    [ hrefs |-> hrefs,
      title |-> <<>>, desc |-> <<>>, h1 |-> <<>>, h2 |-> <<>>, h3 |-> <<>>,
      jsonld |-> <<>>, imgs |-> <<>>, words |-> 30 ]

\* every kind of href: ten distinct same-host targets, duplicates, links to
\* another host and the values extractLinks skips
HubHrefs ==
    << Rel(<<"/">>), Abs(<<HostH>>), Rel(<<"/a">>), Rel(<<"/a", "#f">>),
       Other("anchor"), Abs(<<HostX, "/">>), Rel(<<"/b">>),
       Rel(<<"/b", "#f">>), Rel(<<"/a">>), Other("mailto"),
       Rel(<<"/c">>), Abs(<<HostX, "/p">>), Rel(<<"/c", "#f">>),
       Rel(<<"/d">>), Other("javascript"), Rel(<<"/d", "#f">>),
       Other("tel"), Other("invalid"), Abs(<<HostH, "#f">>),
       Abs(<<HostX, "/">>) >>

\* a densely linked site: every page carries the full navigation
HubSite ==
    [ k \in {Root, PageOf("/a"), PageOf("/b"), PageOf("/c"), PageOf("/d")} |->
        [ status |-> IF k = PageOf("/b") THEN 404
                     ELSE IF k = PageOf("/c") THEN 500 ELSE 200,
          html |-> IF k = PageOf("/d") THEN BareDoc(HubHrefs)
                   ELSE RichDoc(HubHrefs) ] ]

\* a chain / -> /a -> /b -> /c -> /d whose last page links back to the
\* whole chain and then to a new page /e
ChainSite ==
    (Root :> [status |-> 200, html |-> RichDoc(<<Rel(<<"/a">>)>>)]) @@
    (PageOf("/a") :> [status |-> 200, html |-> RichDoc(<<Rel(<<"/b">>)>>)]) @@
    (PageOf("/b") :> [status |-> 200, html |-> BareDoc(<<Rel(<<"/c">>)>>)]) @@
    (PageOf("/c") :> [status |-> 200, html |-> RichDoc(<<Rel(<<"/d">>)>>)]) @@
    (PageOf("/d") :> [status |-> 200, html |-> RichDoc(
        << Abs(<<HostH, "/">>), Rel(<<"/a">>), Rel(<<"/b">>), Rel(<<"/c">>),
           Rel(<<"/d">>), Rel(<<"/e">>) >>)]) @@
    (PageOf("/e") :> [status |-> 200, html |-> BareDoc(<<>>)])

\* a small site: a home page with a logo link back to the home page, an
\* about page and a link to another site
SmallSite ==
    (Root :> [status |-> 200, html |-> RichDoc(
        << Rel(<<"/">>), Rel(<<"/a">>), Abs(<<HostX, "/">>),
           Rel(<<"/missing">>) >>)]) @@
    (PageOf("/a") :> [status |-> 301, html |-> BareDoc(
        << Abs(<<HostH>>), Rel(<<"/a", "#f">>), Abs(<<HostX, "/p">>) >>)])

\* a home page with two links, the first to a page with many links
WideSite ==
    (Root :> [status |-> 200, html |-> RichDoc(
        << Rel(<<"/a">>), Rel(<<"/b">>) >>)]) @@
    (PageOf("/a") :> [status |-> 200, html |-> RichDoc(
        << Rel(<<"/c">>), Rel(<<"/c", "#f">>), Rel(<<"/d">>),
           Rel(<<"/d", "#f">>), Rel(<<"/e">>), Rel(<<"/e", "#f">>),
           Rel(<<"/p">>), Rel(<<"/p", "#f">>), Rel(<<"/missing">>) >>)])

Sites == {"hub", "chain", "small", "wide"}

SiteMap(name) ==
    IF name = "hub" THEN HubSite
    ELSE IF name = "chain" THEN ChainSite
    ELSE IF name = "wide" THEN WideSite
    ELSE SmallSite

\* the seed as typed on the command line: "https://h" or "https://h/"
Seeds == {<<HostH>>, <<HostH, "/">>}

ErrorMessages == {"fetch failed", "This operation was aborted"}

NotFound == [status |-> 404, html |-> BareDoc(<<>>)]

\* the response the server gives to a request for url
Fetch(s, url) ==
    IF Normalize(url) \in DOMAIN SiteMap(s) THEN SiteMap(s)[Normalize(url)]
    ELSE NotFound

----------------------------------------------------------------------------
(* crawl(url), one action per step of the async function *)

\* main, line 192: await crawl(START_URL)
CrawlInit ==
    /\ START_URL \in Seeds
    /\ site \in Sites
    /\ visited = {}
    /\ pages = <<>>
    /\ stack = <<Frame(START_URL)>>
    /\ failures = 0
    /\ ev = [op |-> "start", url |-> START_URL]
    /\ snapshot = <<>>

\* line 148: if (visited.has(url) || pages.length >= MAX_PAGES) return
CrawlSkip ==
    /\ stack # <<>> /\ Top.pc = "entry"
    /\ AlreadyVisited(visited, Top.url) \/ BudgetReached(pages)
    /\ stack' = Return(stack)
    /\ ev' = [op |-> "skip", url |-> Top.url]
    /\ UNCHANGED <<START_URL, site, visited, pages, failures, snapshot>>
    /\ UNCHANGED nonCrawlVars

\* line 151: visited.add(url)
CrawlVisit ==
    /\ stack # <<>> /\ Top.pc = "entry"
    /\ ~(AlreadyVisited(visited, Top.url) \/ BudgetReached(pages))
    /\ visited' = visited \cup {Top.url}
    /\ stack' = SetTop([Top EXCEPT !.pc = "fetch"])
    /\ ev' = [op |-> "visit", url |-> Top.url]
    /\ UNCHANGED <<START_URL, site, pages, failures, snapshot>>
    /\ UNCHANGED nonCrawlVars

\* lines 154-172: the fetch resolves; the page is recorded and the loop
\* over its links begins
FetchOk ==
    /\ stack # <<>> /\ Top.pc = "fetch"
    /\ LET response == Fetch(site, Top.url)
           ps == Append(pages, PageData(Top.url, response, START_URL))
       IN  /\ pages' = ps
           /\ stack' = SetTop([Top EXCEPT !.pc = "loop", !.i = 1,
                                 !.links = LoopLinks(Top.url, response,
                                                     START_URL, ps)])
    /\ ev' = [op |-> "fetch_ok", url |-> Top.url]
    /\ UNCHANGED <<START_URL, site, visited, failures, snapshot>>
    /\ UNCHANGED nonCrawlVars

\* lines 178-185: fetchPage or response.text() throws (network error or
\* the abort of the timeout); the catch branch records the failure
FetchFail ==
    /\ stack # <<>> /\ Top.pc = "fetch"
    /\ failures < MaxFailures
    /\ \E message \in ErrorMessages :
           pages' = Append(pages, ErrorRecord(Top.url, message))
    /\ stack' = AfterCatch(stack)
    /\ failures' = failures + 1
    /\ ev' = [op |-> "fetch_fail", url |-> Top.url]
    /\ UNCHANGED <<START_URL, site, visited, snapshot>>
    /\ UNCHANGED nonCrawlVars

\* lines 172-176: the next link of the loop has not been visited
LoopCall ==
    /\ stack # <<>> /\ Top.pc = "loop" /\ Top.i <= Len(Top.links)
    /\ ~AlreadyVisited(visited, Top.links[Top.i])
    /\ stack' = Append(SetTop([Top EXCEPT !.i = Top.i + 1]),
                       Frame(Top.links[Top.i]))
    /\ ev' = [op |-> "call", url |-> Top.links[Top.i]]
    /\ UNCHANGED <<START_URL, site, visited, pages, failures, snapshot>>
    /\ UNCHANGED nonCrawlVars

\* line 173: the next link of the loop is in visited
LoopSkip ==
    /\ stack # <<>> /\ Top.pc = "loop" /\ Top.i <= Len(Top.links)
    /\ AlreadyVisited(visited, Top.links[Top.i])
    /\ stack' = SetTop([Top EXCEPT !.i = Top.i + 1])
    /\ ev' = [op |-> "seen", url |-> Top.links[Top.i]]
    /\ UNCHANGED <<START_URL, site, visited, pages, failures, snapshot>>
    /\ UNCHANGED nonCrawlVars

\* line 176: the loop is over and crawl returns
LoopEnd ==
    /\ stack # <<>> /\ Top.pc = "loop" /\ Top.i > Len(Top.links)
    /\ stack' = Return(stack)
    /\ ev' = [op |-> "return", url |-> Top.url]
    /\ UNCHANGED <<START_URL, site, visited, pages, failures, snapshot>>
    /\ UNCHANGED nonCrawlVars

\* main, lines 196-209: the crawl has returned, the snapshot is written
WriteSnapshot ==
    /\ stack = <<>> /\ snapshot = <<>>
    /\ snapshot' = << [ website_url |-> START_URL,
                        pages_crawled |-> Len(pages),
                        pages |-> pages,
                        robots_txt |-> [exists |-> FALSE],
                        sitemaps |-> <<>>,
                        key_entities |-> <<>> ] >>
    /\ ev' = [op |-> "main", url |-> START_URL]
    /\ UNCHANGED <<START_URL, site, visited, pages, stack, failures>>
    /\ UNCHANGED nonCrawlVars

CrawlNext ==
    \/ CrawlSkip
    \/ CrawlVisit
    \/ FetchOk
    \/ FetchFail
    \/ LoopCall
    \/ LoopSkip
    \/ LoopEnd
    \/ WriteSnapshot

\* the crawler is not running
CrawlIdle ==
    /\ START_URL = <<>> /\ site = "none" /\ visited = {} /\ pages = <<>>
    /\ stack = <<>> /\ failures = 0
    /\ ev = [op |-> "idle", url |-> <<>>]
    /\ snapshot = <<>>

KPIdle == kpInput = <<>> /\ kpOutput = <<>>
CCIdle == ccSnapshot = [pages |-> <<>>] /\ ccResult = <<>>
NoResults ==
    [health |-> <<>>, citation |-> <<>>, coverage |-> <<>>, gap |-> <<>>]
AnIdle == anSnapshot = <<>> /\ anCustomer = <<>> /\ anResults = NoResults
Procs == {1, 2}
ProcIdle == [pc |-> "idle", finished |-> <<>>]
MonIdle ==
    /\ monConfig = <<>> /\ monFiles = <<>> /\ monClock = 0
    /\ monLast = [op |-> "none"] /\ monLog = <<>>
    /\ mcProc = [p \in Procs |-> ProcIdle]
SdIdle == sdHtml = <<>> /\ sdOutput = <<>>
VjIdle == vjInput = <<>> /\ vjOutput = <<>>
EnIdle == enWeb = <<>> /\ enFile = <<>> /\ enCol = <<>> /\ enLog = <<>>
RestIdle == AnIdle /\ MonIdle /\ SdIdle /\ VjIdle /\ EnIdle

Init == CrawlInit /\ KPIdle /\ CCIdle /\ RestIdle
Next == CrawlNext
Spec == Init /\ [][Next]_vars

Finished == snapshot # <<>>

----------------------------------------------------------------------------
(* Properties of the crawler *)

IsError(p) == "error" \in DOMAIN p
Fetched == {i \in 1..Len(pages) : ~IsError(pages[i])}

\* C1: in every state of a crawl, during the traversal and after it has
\* returned, pages holds at most MAX_PAGES (10) records, error records of
\* the catch branch included.
C1_PageBudget == Len(pages) <= MAX_PAGES

\* the budget is used up by a crawl in which fetches failed
C1_Witness ==
    /\ Finished
    /\ Len(pages) = MAX_PAGES
    /\ \E i \in 1..Len(pages) : IsError(pages[i])

\* C2: in a finished crawl no two page records denote the same page, where
\* URLs that are equal after normalization (the seed as typed and the href
\* of a link back to it, URLs that differ only in the fragment) are the
\* same page; each record is one fetch, so no page is fetched twice.
C2_UniquePages ==
    Finished =>
        \A i, j \in 1..Len(pages) :
            i # j => Normalize(pages[i].url) # Normalize(pages[j].url)

\* the same-host link targets of the page a record was built from
LinksOf(p) ==
    FilterHost(extractLinks(Fetch(site, p.url).html, p.url),
               Hostname(START_URL))

\* C3: when crawl(seed) has returned, either the budget is used up or every
\* same-host link extracted from a successfully fetched page was visited.
C3_FrontierExhausted ==
    Finished =>
        \/ Len(pages) = MAX_PAGES
        \/ \A i \in Fetched :
               \A k \in 1..Len(LinksOf(pages[i])) :
                   LinksOf(pages[i])[k] \in visited

\* C4: a page record has status_code 0 exactly when it has an error field.
C4_StatusZeroIffError ==
    \A i \in 1..Len(pages) : (pages[i].status_code = 0) <=> IsError(pages[i])

\* records of both branches are present, one of them for a non-2xx response
C4_Witness ==
    /\ \E i \in 1..Len(pages) : IsError(pages[i]) /\ pages[i].status_code = 0
    /\ \E i \in 1..Len(pages) : ~IsError(pages[i]) /\ pages[i].status_code = 404

\* a step in which the fetch of the URL being crawled throws
FetchThrows == stack # <<>> /\ Top.pc = "fetch" /\ ev'.op = "fetch_fail"

\* C5: when the fetch of a URL throws, exactly one record
\* {url, status_code 0, error} is appended for it, the earlier records are
\* unchanged, and crawl returns to its caller, whose frame (its link list
\* and its position in it) is unchanged, so the parent goes on with its
\* next link; a response with a non-2xx status is recorded with its status
\* and without an error.
C5_FailureIsRecorded ==
    /\ [][FetchThrows =>
            /\ Len(pages') = Len(pages) + 1
            /\ SubSeq(pages', 1, Len(pages)) = pages
            /\ \E message \in ErrorMessages :
                   pages'[Len(pages')] =
                       [url |-> Top.url, status_code |-> 0, error |-> message]
            /\ stack' = SubSeq(stack, 1, Len(stack) - 1)]_vars
    /\ [](\A i \in Fetched :
              pages[i].status_code = Fetch(site, pages[i].url).status)

\* a fetch has just failed below a parent that still has links to follow,
\* after a 404 response was recorded
C5_Witness ==
    /\ ev.op = "fetch_fail"
    /\ stack # <<>> /\ Top.pc = "loop" /\ Top.i <= Len(Top.links)
    /\ \E i \in Fetched : pages[i].status_code = 404

\* the distinct link targets in the HTML of the page at url: every href
\* that is not skipped and resolves to a URL
LinkTargets(url) ==
    LET hrefs == Fetch(site, url).html.hrefs
    IN  { ResolveHref(hrefs[k], url) :
            k \in {n \in 1..Len(hrefs) :
                     /\ ~SkippedHref(hrefs[n])
                     /\ ResolveHref(hrefs[n], url) # <<>>} }

\* C6: for every fetched page, internal_links is the number of distinct
\* same-host link targets in its HTML and external_links the number of
\* distinct cross-host link targets in it.
C6_LinkCounts ==
    \A i \in Fetched :
        LET targets == LinkTargets(pages[i].url)
            sameHost == {t \in targets : Hostname(t) = Hostname(START_URL)}
        IN  /\ pages[i].internal_links = Cardinality(sameHost)
            /\ pages[i].external_links = Cardinality(targets \ sameHost)

----------------------------------------------------------------------------
(* Key page detector: detectKeyPages                                        *)
(*                                                                          *)
(* In the URLs given to the detector a path token starts with "/", a file  *)
(* extension token with ".", and a last token "/" is a trailing slash.     *)
(* Scores are kept in tenths of a point (word_count / 10 is a fraction).   *)

PathTokens ==
    { "/", "/a", "/b", "/c", "/d", "/e", "/missing", "/p", "/blog", "/blogger",
      "/about", "/contact", "/products", "/services", "/pricing", "/post",
      "/static", "/app", "/style", "/logo", "/anim" }

\* String.prototype.toLowerCase, token by token
ToLower(tok) ==
    IF tok = ".CSS" THEN ".css" ELSE IF tok = ".PNG" THEN ".png" ELSE tok

\* url.toLowerCase().endsWith(ext)
EndsWithLower(url, ext) == ToLower(url[Len(url)]) = ext

\* token t contains the string pat
TokenIncludes(t, pat) ==
    \/ t = pat
    \/ <<t, pat>> \in { <<"/blogger", "/blog">>, <<"/products", "/product">>,
                        <<"/services", "/service">> }

\* url.includes(pat) for a pat that is a path prefix such as '/blog'
Includes(url, pat) == \E i \in 1..Len(url) : TokenIncludes(url[i], pat)

\* url.includes('/static/'): a segment "static" followed by a slash
IncludesStaticDir(url) ==
    \E i \in 1..(Len(url) - 1) :
        /\ ToLower(url[i]) = "/static"
        /\ url[i + 1] \in PathTokens

\* url.endsWith('/')
EndsWithSlash(url) == url[Len(url)] = "/"

\* url.replace(/\/$/, '')
StripTrailingSlash(url) ==
    IF EndsWithSlash(url) THEN SubSeq(url, 1, Len(url) - 1) ELSE url

\* lines 44 and 58: the test the code uses for the home page
HomepageTest(url) == url = StripTrailingSlash(url) \/ EndsWithSlash(url)

\* lines 14-25: the filter of content pages
IsKeyCandidate(p) ==
    /\ ~EndsWithLower(p.url, ".css")
    /\ ~EndsWithLower(p.url, ".js")
    /\ ~EndsWithLower(p.url, ".ico")
    /\ ~EndsWithLower(p.url, ".png")
    /\ ~EndsWithLower(p.url, ".jpg")
    /\ ~EndsWithLower(p.url, ".gif")
    /\ ~IncludesStaticDir(p.url)
    /\ p.status_code = 200

RECURSIVE FilterCandidates(_)
FilterCandidates(ps) ==
    IF ps = <<>> THEN <<>>
    ELSE IF IsKeyCandidate(Head(ps))
         THEN <<Head(ps)>> \o FilterCandidates(Tail(ps))
         ELSE FilterCandidates(Tail(ps))

Min(a, b) == IF a <= b THEN a ELSE b
Max(a, b) == IF a >= b THEN a ELSE b

\* lines 28-49: the content score of a page, in tenths
ContentScore(page) ==
    Min(page.word_count, 400)
    + page.internal_links * 100
    + (IF Len(page.h1) > 0 THEN 200 ELSE 0)
    + (IF Len(page.h2) > 0 THEN 100 ELSE 0)
    + (IF HomepageTest(page.url) THEN 150 ELSE 0)

RECURSIVE ScoreAll(_)
ScoreAll(ps) ==
    IF ps = <<>> THEN <<>>
    ELSE <<[page |-> Head(ps), _contentScore |-> ContentScore(Head(ps))]>>
         \o ScoreAll(Tail(ps))

\* a comparator that sorts in ascending order
Compare_Ascending(a, b) == a._contentScore - b._contentScore

\* line 52: the comparator (a, b) => b._contentScore - a._contentScore
Compare(a, b) == b._contentScore - a._contentScore

\* Array.prototype.sort with the comparator: a stable sort, modelled as an
\* insertion of each element before the first element it sorts before
InsertSorted(sorted, x) ==
    LET before == {k \in 1..Len(sorted) : Compare(x, sorted[k]) < 0}
    IN  IF before = {} THEN Append(sorted, x)
        ELSE LET k == CHOOSE m \in before : \A n \in before : m <= n
             IN  SubSeq(sorted, 1, k - 1) \o <<x>>
                 \o SubSeq(sorted, k, Len(sorted))

RECURSIVE SortScored(_)
SortScored(s) ==
    IF s = <<>> THEN <<>>
    ELSE InsertSorted(SortScored(SubSeq(s, 1, Len(s) - 1)), s[Len(s)])

\* line 55: scored.slice(0, 10)
TopPages(sorted) == Slice0(sorted, 10)

\* Math.round of a non-negative number given in tenths
RoundTenths(t) == (t + 5) \div 10

\* lines 58-62: the type of a key page
PageType(url) ==
    IF HomepageTest(url) THEN "homepage"
    ELSE IF Includes(url, "/blog") THEN "blog"
    ELSE IF Includes(url, "/about") THEN "about"
    ELSE IF Includes(url, "/contact") THEN "contact"
    ELSE IF Includes(url, "/product") \/ Includes(url, "/service")
         THEN "product"
    ELSE "content"

\* lines 55-67: the key page built from a scored page
KeyPage(sp) ==
    [ url |-> sp.page.url,
      title |-> sp.page.title,
      type |-> PageType(sp.page.url),
      word_count |-> sp.page.word_count,
      internal_links |-> sp.page.internal_links,
      key_headings |-> Slice0(sp.page.h1 \o sp.page.h2, 5),
      importance_score |-> RoundTenths(sp._contentScore) ]

RECURSIVE MapKeyPage(_)
MapKeyPage(s) ==
    IF s = <<>> THEN <<>> ELSE <<KeyPage(Head(s))>> \o MapKeyPage(Tail(s))

detectKeyPages(ps) ==
    MapKeyPage(TopPages(SortScored(ScoreAll(FilterCandidates(ps)))))

----------------------------------------------------------------------------
(* Inputs of the key page detector *)

MaxKPShort == 2     \* length of the page lists drawn from KPMediumPool
MaxKPInput == 11    \* length of the page lists drawn from KPTinyPool

KPPage(url, status, words, links, nh1, nh2) ==
    [ url |-> url, status_code |-> status,
      title |-> Text(10, 10),
      word_count |-> words, internal_links |-> links,
      h1 |-> [k \in 1..nh1 |-> Text(8, 8)],
      h2 |-> [k \in 1..nh2 |-> Text(6, 6)] ]

KPUrls ==
    { <<HostH>>, <<HostH, "/">>, <<HostH, "/blog", "/post">>,
      <<HostH, "/blogger">>, <<HostH, "/about">>, <<HostH, "/about", "/blog">>,
      <<HostH, "/contact">>, <<HostH, "/products">>,
      <<HostH, "/services", "/">>, <<HostH, "/pricing">>,
      <<HostH, "/style", ".css">>, <<HostH, "/logo", ".PNG">>,
      <<HostH, "/static", "/app">> }

KPFullPool ==
    { KPPage(u, st, w, l, a, b) :
        u \in KPUrls, st \in {200, 404}, w \in {0, 15, 400, 1000},
        l \in {0, 3}, a \in {0, 1}, b \in {0, 1} }

KPMediumPool ==
    { KPPage(<<HostH, "/">>, 200, 400, 3, 1, 1),
      KPPage(<<HostH, "/blog", "/post">>, 200, 15, 0, 1, 0),
      KPPage(<<HostH, "/about">>, 200, 1000, 1, 0, 0),
      KPPage(<<HostH, "/pricing">>, 200, 15, 0, 1, 0),
      KPPage(<<HostH, "/style", ".css">>, 200, 0, 0, 0, 0),
      KPPage(<<HostH, "/contact">>, 404, 30, 2, 1, 1) }

KPTinyPool ==
    { KPPage(<<HostH, "/pricing">>, 200, 15, 0, 0, 0),
      KPPage(<<HostH, "/blog", "/post">>, 200, 1000, 2, 1, 1) }

SeqsUpTo(S, n) == UNION {[1..k -> S] : k \in 0..n}

KPInputs ==
    [1..1 -> KPFullPool]
    \cup SeqsUpTo(KPMediumPool, MaxKPShort)
    \cup SeqsUpTo(KPTinyPool, MaxKPInput)

KPInit ==
    /\ CrawlIdle /\ CCIdle /\ RestIdle
    /\ kpInput \in KPInputs
    /\ kpOutput = <<>>

\* main, line 163: const keyPages = detectKeyPages(snapshot.pages)
DetectKeyPages ==
    /\ kpOutput = <<>>
    /\ kpOutput' = <<detectKeyPages(kpInput)>>
    /\ UNCHANGED <<kpInput, crawlVars, ccVars, restVars>>

KPNext == DetectKeyPages
SpecKP == KPInit /\ [][KPNext]_vars

----------------------------------------------------------------------------
(* Properties of the key page detector *)

\* C7: detectKeyPages returns at most 10 key pages, each of them built from
\* a page of the input, in the order of non-increasing importance_score.
C7_KeyPagesBoundedSorted ==
    kpOutput # <<>> =>
        LET out == kpOutput[1]
        IN  /\ Len(out) <= 10
            /\ \A j \in 1..Len(out) :
                   \E i \in 1..Len(kpInput) :
                       /\ kpInput[i].url = out[j].url
                       /\ kpInput[i].status_code = 200
                       /\ kpInput[i].word_count = out[j].word_count
                       /\ kpInput[i].internal_links = out[j].internal_links
            /\ \A j \in 1..(Len(out) - 1) :
                   out[j].importance_score >= out[j + 1].importance_score

\* more than ten candidates, the first of them not the best, are cut to
\* the ten best
C7_Witness ==
    /\ kpOutput # <<>>
    /\ Len(FilterCandidates(kpInput)) > 10
    /\ Len(kpOutput[1]) = 10
    /\ kpOutput[1][1].url # kpInput[1].url
    /\ kpOutput[1][1].importance_score > kpOutput[1][10].importance_score

\* the URL has no path segments after the host
IsRootUrl(url) == Normalize(url) = <<Hostname(url), "/">>

\* the type the URL precedence of the specification gives
SpecifiedType(url) ==
    IF IsRootUrl(url) THEN "homepage"
    ELSE IF Includes(url, "/blog") THEN "blog"
    ELSE IF Includes(url, "/about") THEN "about"
    ELSE IF Includes(url, "/contact") THEN "contact"
    ELSE IF Includes(url, "/product") \/ Includes(url, "/service")
         THEN "product"
    ELSE "content"

\* C8: every key page is classified by URL precedence: the root URL is
\* 'homepage'; a non-root URL containing '/blog' is 'blog', else '/about'
\* gives 'about', else '/contact' gives 'contact', else '/product' or
\* '/service' gives 'product', and any other page is 'content'.
C8_Classification ==
    kpOutput # <<>> =>
        \A j \in 1..Len(kpOutput[1]) :
            kpOutput[1][j].type = SpecifiedType(kpOutput[1][j].url)

----------------------------------------------------------------------------
(* Content coverage checker: analyzeContentCoverage                         *)
(* An issue is [type, severity, page]; its message text is left out.       *)

Has(p, field) == field \in DOMAIN p

\* !s || s.trim() === '' for a text field that may be absent
Blank(p, field) ==
    \/ ~Has(p, field)
    \/ p[field].len = 0
    \/ Trim(p[field]).len = 0

Issue(type, severity, page) ==
    [type |-> type, severity |-> severity, page |-> page.url]

\* lines 14-17: the filter of content pages
IsContentPage(p) ==
    /\ ~EndsWithLower(p.url, ".css")
    /\ ~EndsWithLower(p.url, ".js")
    /\ ~EndsWithLower(p.url, ".ico")
    /\ ~EndsWithLower(p.url, ".png")
    /\ ~EndsWithLower(p.url, ".jpg")

RECURSIVE FilterContent(_)
FilterContent(ps) ==
    IF ps = <<>> THEN <<>>
    ELSE IF IsContentPage(Head(ps))
         THEN <<Head(ps)>> \o FilterContent(Tail(ps))
         ELSE FilterContent(Tail(ps))

\* lines 20-36, check 1
MetaDescriptionIssue(page) ==
    IF Blank(page, "meta_description")
    THEN <<Issue("missing_meta_description", "high", page)>>
    ELSE IF page.meta_description.len < 50
         THEN <<Issue("short_meta_description", "medium", page)>>
         ELSE <<>>

\* lines 39-55, check 2
H1Issue(page) ==
    IF ~Has(page, "h1") \/ Len(page.h1) = 0
    THEN <<Issue("missing_h1", "high", page)>>
    ELSE IF Len(page.h1) > 1
         THEN <<Issue("multiple_h1", "medium", page)>>
         ELSE <<>>

\* a title check that needs the field to be there
TitleIssue_PresentOnly(page) ==
    IF Has(page, "title") /\ Blank(page, "title")
    THEN <<Issue("missing_title", "high", page)>>
    ELSE <<>>

\* lines 58-67, check 3
TitleIssue(page) ==
    IF Blank(page, "title")
    THEN <<Issue("missing_title", "high", page)>>
    ELSE <<>>

\* the threshold of the health checks (100 words) used for thin content
ThinContent_Under100(page) == Has(page, "word_count") /\ page.word_count < 100

\* line 71: page.word_count < 50, false when word_count is undefined
ThinContent(page) == Has(page, "word_count") /\ page.word_count < 50

\* lines 70-79, check 4
ThinContentIssue(page) ==
    IF ThinContent(page)
    THEN <<Issue("thin_content", "medium", page)>>
    ELSE <<>>

\* line 84: the images without alt text
ImagesWithoutAlt(page) ==
    {k \in 1..Len(page.images) : Blank(page.images[k], "alt")}

\* lines 82-94, check 5
ImagesIssue(page) ==
    IF Has(page, "images") /\ Len(page.images) > 0
       /\ ImagesWithoutAlt(page) # {}
    THEN <<Issue("images_missing_alt", "medium", page)>>
    ELSE <<>>

\* contentPages.forEach of one check: the issues of the pages, in order
RECURSIVE ForEachPage(_, _)
ForEachPage(ps, check) ==
    IF ps = <<>> THEN <<>>
    ELSE (IF check = 1 THEN MetaDescriptionIssue(Head(ps))
          ELSE IF check = 2 THEN H1Issue(Head(ps))
          ELSE IF check = 3 THEN TitleIssue(Head(ps))
          ELSE IF check = 4 THEN ThinContentIssue(Head(ps))
          ELSE ImagesIssue(Head(ps)))
         \o ForEachPage(Tail(ps), check)

\* issues.filter(i => i.severity === severity).length
CountSeverity(issues, severity) ==
    Cardinality({k \in 1..Len(issues) : issues[k].severity = severity})

\* a score that is not clamped to 0..100
calculateCoverageScore_Unclamped(ps, issues) ==
    IF Len(ps) = 0 THEN 0
    ELSE 100 - CountSeverity(issues, "high") * 15
             - CountSeverity(issues, "medium") * 5

\* lines 111-123
calculateCoverageScore(ps, issues) ==
    IF Len(ps) = 0 THEN 0
    ELSE Max(0, Min(100, 100 - CountSeverity(issues, "high") * 15
                             - CountSeverity(issues, "medium") * 5))

\* lines 9-109
analyzeContentCoverage(siteSnapshot) ==
    LET contentPages == FilterContent(siteSnapshot.pages)
        issues == ForEachPage(contentPages, 1) \o ForEachPage(contentPages, 2)
                  \o ForEachPage(contentPages, 3)
                  \o ForEachPage(contentPages, 4)
                  \o ForEachPage(contentPages, 5)
        count(field) ==
            Cardinality({k \in 1..Len(contentPages) :
                            ~Blank(contentPages[k], field)})
    IN  [ issues |-> issues,
          summary |->
            [ total_content_pages |-> Len(contentPages),
              pages_with_meta_description |-> count("meta_description"),
              pages_with_h1 |->
                  Cardinality({k \in 1..Len(contentPages) :
                                  /\ Has(contentPages[k], "h1")
                                  /\ Len(contentPages[k].h1) > 0}),
              pages_with_title |-> count("title"),
              total_issues |-> Len(issues),
              high_severity |-> CountSeverity(issues, "high"),
              medium_severity |-> CountSeverity(issues, "medium"),
              coverage_score |-> calculateCoverageScore(contentPages, issues) ],
          contentPages |-> contentPages ]

----------------------------------------------------------------------------
(* Inputs of the content coverage checker *)

MaxCCPages == 2     \* pages in a snapshot given to the checker

CCPage(url, desc, nh1, title, words, images) ==
    [ url |-> url, status_code |-> 200,
      title |-> title, meta_description |-> desc,
      h1 |-> [k \in 1..nh1 |-> Text(8, 8)],
      word_count |-> words,
      images |-> images ]

Image(alt) == [src |-> <<"img.png">>, alt |-> alt, has_alt |-> alt.len > 0]

CCUrls ==
    { <<HostH, "/a">>, <<HostH, "/style", ".css">>, <<HostH, "/logo", ".PNG">>,
      <<HostH, "/anim", ".gif">> }

CCImageLists ==
    { <<>>, <<Image(Text(4, 4))>>, <<Image(EmptyText)>>, <<Image(Text(1, 0))>>,
      <<Image(Text(4, 4)), Image(EmptyText)>> }

CCFullPool ==
    { CCPage(u, d, n, t, w, im) :
        u \in CCUrls,
        d \in {EmptyText, Text(3, 0), Text(49, 49), Text(50, 50), Text(52, 48)},
        n \in {0, 1, 2},
        t \in {EmptyText, Text(2, 0), Text(10, 10)},
        w \in {30, 49, 50, 99},
        im \in CCImageLists }

CCSmallPool ==
    { CCPage(<<HostH, "/b">>, EmptyText, 0, EmptyText, 30, <<Image(EmptyText)>>),
      CCPage(<<HostH, "/p">>, EmptyText, 0, EmptyText, 30, <<Image(EmptyText)>>),
      CCPage(<<HostH, "/c">>, EmptyText, 0, EmptyText, 50, <<>>),
      CCPage(<<HostH, "/d">>, EmptyText, 0, Text(10, 10), 99, <<>>),
      CCPage(<<HostH, "/e">>, Text(150, 150), 1, Text(10, 10), 500,
             <<Image(Text(4, 4))>>),
      CCPage(<<HostH, "/app", ".js">>, EmptyText, 0, EmptyText, 0, <<>>),
      ErrorRecord(<<HostH, "/missing">>, "fetch failed") }

DistinctUrls(ps) ==
    \A i, j \in 1..Len(ps) : i # j => ps[i].url # ps[j].url

CCInputs ==
    { ps \in SeqsUpTo(CCSmallPool, MaxCCPages) : DistinctUrls(ps) }
    \cup { <<p>> \o t : p \in CCFullPool,
                        t \in { q \in SeqsUpTo(CCSmallPool, MaxCCPages - 1) :
                                  DistinctUrls(q) } }

CCInit ==
    /\ CrawlIdle /\ KPIdle /\ RestIdle
    /\ ccSnapshot \in { [pages |-> ps] : ps \in CCInputs }
    /\ ccResult = <<>>

\* lines 129-132: the snapshot is read and analysed
AnalyzeContent ==
    /\ ccResult = <<>>
    /\ ccResult' = <<analyzeContentCoverage(ccSnapshot)>>
    /\ UNCHANGED <<ccSnapshot, crawlVars, kpVars, restVars>>

CCNext == AnalyzeContent
SpecCC == CCInit /\ [][CCNext]_vars

----------------------------------------------------------------------------
(* Properties of the content coverage checker *)

Analyzed == ccResult # <<>>
Score == ccResult[1].summary.coverage_score
NumHigh == CountSeverity(ccResult[1].issues, "high")
NumMedium == CountSeverity(ccResult[1].issues, "medium")
NoContentPages == \A k \in 1..Len(ccSnapshot.pages) :
                      ~IsContentPage(ccSnapshot.pages[k])

\* C9 as stated: for every snapshot the score is
\* max(0, 100 - 15 * high issues - 5 * medium issues).
C9_ScoreFormula ==
    Analyzed => Score = Max(0, 100 - 15 * NumHigh - 5 * NumMedium)

\* C9, amended: for every snapshot with at least one content page the score
\* is max(0, 100 - 15 * high issues - 5 * medium issues), and it is 0 for a
\* snapshot without content pages; the score is never below 0 and adding a
\* high or a medium issue to the issues never increases it.
C9_ScoreFormulaAmended ==
    Analyzed =>
        /\ Score = IF NoContentPages THEN 0
                   ELSE Max(0, 100 - 15 * NumHigh - 5 * NumMedium)
        /\ Score >= 0
        /\ \A sev \in {"high", "medium"} :
               calculateCoverageScore(
                   ccResult[1].contentPages,
                   Append(ccResult[1].issues,
                          [type |-> "added", severity |-> sev, page |-> <<>>]))
               <= Score

\* five high issues and no medium one give 25
C9_Witness == Analyzed /\ NumHigh = 5 /\ NumMedium = 0 /\ Score = 25

\* the issues of the given type reported for the page
IssuesOf(type, page) ==
    {k \in 1..Len(ccResult[1].issues) :
        /\ ccResult[1].issues[k].type = type
        /\ ccResult[1].issues[k].page = page.url}

\* exactly one issue of the type and severity for the page if cond holds,
\* none otherwise
Emits(type, severity, page, cond) ==
    /\ Cardinality(IssuesOf(type, page)) = IF cond THEN 1 ELSE 0
    /\ \A k \in IssuesOf(type, page) :
           ccResult[1].issues[k].severity = severity

CoverageIssueTypes ==
    { "missing_meta_description", "short_meta_description", "missing_h1",
      "multiple_h1", "missing_title", "thin_content", "images_missing_alt" }

\* the page of the end-to-end example: status 200, 30 words, no meta
\* description, no h1, otherwise complete
ExamplePage ==
    CCPage(<<HostH, "/a">>, EmptyText, 0, Text(10, 10), 30, <<>>)

\* C10: for each content page the checker emits missing_meta_description
\* (high) iff the description is empty (absent or nothing but whitespace),
\* short_meta_description (medium) iff it is not empty and shorter than 50
\* characters, missing_h1 (high) iff there is no H1, multiple_h1 (medium)
\* iff there is more than one, missing_title (high) iff the title is empty,
\* thin_content (medium) iff word_count < 50, images_missing_alt (medium)
\* iff some image has no alt text, and nothing else; the snapshot of the
\* example page yields exactly missing_meta_description, missing_h1 and
\* thin_content and the score 65.
C10_CoverageIssues ==
    Analyzed =>
        /\ \A k \in 1..Len(ccSnapshot.pages) :
               LET page == ccSnapshot.pages[k]
                   noDesc == \/ ~Has(page, "meta_description")
                             \/ page.meta_description.tlen = 0
                   numH1 == IF Has(page, "h1") THEN Len(page.h1) ELSE 0
               IN  IsContentPage(page) =>
                     /\ Emits("missing_meta_description", "high", page, noDesc)
                     /\ Emits("short_meta_description", "medium", page,
                              ~noDesc /\ page.meta_description.len < 50)
                     /\ Emits("missing_h1", "high", page, numH1 = 0)
                     /\ Emits("multiple_h1", "medium", page, numH1 > 1)
                     /\ Emits("missing_title", "high", page,
                              ~Has(page, "title") \/ page.title.tlen = 0)
                     /\ Emits("thin_content", "medium", page,
                              Has(page, "word_count") /\ page.word_count < 50)
                     /\ Emits("images_missing_alt", "medium", page,
                              /\ Has(page, "images")
                              /\ \E n \in 1..Len(page.images) :
                                     page.images[n].alt.tlen = 0)
        /\ \A k \in 1..Len(ccResult[1].issues) :
               /\ ccResult[1].issues[k].type \in CoverageIssueTypes
               /\ \E n \in 1..Len(ccSnapshot.pages) :
                      /\ IsContentPage(ccSnapshot.pages[n])
                      /\ ccSnapshot.pages[n].url = ccResult[1].issues[k].page
        /\ ccSnapshot.pages = <<ExamplePage>> =>
               /\ { ccResult[1].issues[k].type :
                      k \in 1..Len(ccResult[1].issues) }
                  = {"missing_meta_description", "missing_h1", "thin_content"}
               /\ Len(ccResult[1].issues) = 3
               /\ Score = 65

\* the snapshot of the example has been analysed
C10_Witness ==
    /\ Analyzed
    /\ ccSnapshot.pages = <<ExamplePage>>
    /\ Len(ccResult[1].issues) = 3
    /\ Score = 65

----------------------------------------------------------------------------
(* Crawl/index health checks: runHealthChecks                               *)
(* The snapshot file is read, the checks run in the order of the code and  *)
(* the result is written to data/health_checks.json.  An issue is          *)
(* [type, severity, page]; the timestamp of the result is left out.        *)

SiteIssue(type, severity, snap) ==
    [type |-> type, severity |-> severity, page |-> snap.website_url]

\* a string field that is present and not ''
Truthy(p, field) == Has(p, field) /\ p[field].len > 0

\* lines 89-108, check 1
RECURSIVE StatusIssues(_)
StatusIssues(ps) ==
    IF ps = <<>> THEN <<>>
    ELSE LET page == Head(ps)
         IN  (IF page.status_code >= 400
              THEN <<Issue("http_error", "critical", page)>>
              ELSE IF page.status_code >= 300 /\ page.status_code < 400
                   THEN <<Issue("redirect", "medium", page)>>
                   ELSE <<>>)
             \o StatusIssues(Tail(ps))

\* lines 111-126, check 2: titleMap is the set of the titles seen so far
RECURSIVE DuplicateTitleIssues(_, _)
DuplicateTitleIssues(ps, titleMap) ==
    IF ps = <<>> THEN <<>>
    ELSE LET page == Head(ps)
         IN  IF ~Truthy(page, "title")
             THEN DuplicateTitleIssues(Tail(ps), titleMap)
             ELSE IF page.title \in titleMap
                  THEN <<Issue("duplicate_title", "medium", page)>>
                       \o DuplicateTitleIssues(Tail(ps), titleMap)
                  ELSE DuplicateTitleIssues(Tail(ps),
                                            titleMap \cup {page.title})

\* line 129: the filter of key pages
IsHealthKeyPage(p, snap) ==
    \/ p.url = snap.website_url
    \/ (Has(p, "internal_links") /\ p.internal_links > 0)

RECURSIVE FilterHealthKeyPages(_, _)
FilterHealthKeyPages(ps, snap) ==
    IF ps = <<>> THEN <<>>
    ELSE IF IsHealthKeyPage(Head(ps), snap)
         THEN <<Head(ps)>> \o FilterHealthKeyPages(Tail(ps), snap)
         ELSE FilterHealthKeyPages(Tail(ps), snap)

\* lines 130-153, checks 3 and 4: !page[field] || page[field] === ''
RECURSIVE MissingFieldIssues(_, _, _)
MissingFieldIssues(ps, field, type) ==
    IF ps = <<>> THEN <<>>
    ELSE (IF ~Truthy(Head(ps), field)
          THEN <<Issue(type, "high", Head(ps))>>
          ELSE <<>>)
         \o MissingFieldIssues(Tail(ps), field, type)

\* line 156: !snapshot.robots_txt || !snapshot.robots_txt.exists
RobotsMissing(snap) ==
    \/ ~Has(snap, "robots_txt")
    \/ ~Has(snap.robots_txt, "exists")
    \/ ~snap.robots_txt.exists

\* line 166: !snapshot.sitemaps || snapshot.sitemaps.length === 0
SitemapMissing(snap) ==
    ~Has(snap, "sitemaps") \/ Len(snap.sitemaps) = 0

\* lines 155-174, check 5
AvailabilityIssues(snap) ==
    (IF RobotsMissing(snap)
     THEN <<SiteIssue("missing_robots_txt", "medium", snap)>> ELSE <<>>)
    \o (IF SitemapMissing(snap)
        THEN <<SiteIssue("missing_sitemap", "high", snap)>> ELSE <<>>)

\* line 178: page.word_count && page.word_count < 100 &&
\* page.status_code === 200; a word count of 0 is falsy
HealthThin(page) ==
    /\ Has(page, "word_count")
    /\ page.word_count # 0
    /\ page.word_count < 100
    /\ page.status_code = 200

\* lines 177-187, check 6
RECURSIVE HealthThinIssues(_)
HealthThinIssues(ps) ==
    IF ps = <<>> THEN <<>>
    ELSE (IF HealthThin(Head(ps))
          THEN <<Issue("thin_content", "low", Head(ps))>>
          ELSE <<>>)
         \o HealthThinIssues(Tail(ps))

\* url.endsWith(ext), case-sensitive
EndsWith(url, ext) == url[Len(url)] = ext

\* lines 190-194: the filter of non-HTML pages
IsNonHtml(p) ==
    \/ EndsWith(p.url, ".css") \/ EndsWith(p.url, ".js")
    \/ EndsWith(p.url, ".ico") \/ EndsWith(p.url, ".png")
    \/ EndsWith(p.url, ".jpg") \/ EndsWith(p.url, ".gif")

\* lines 190-203, check 7
NonHtmlIssues(snap) ==
    IF \E k \in 1..Len(snap.pages) : IsNonHtml(snap.pages[k])
    THEN <<SiteIssue("non_html_crawled", "low", snap)>>
    ELSE <<>>

\* lines 206-209: the filter of HTML pages
IsHtmlPage(p) ==
    /\ ~EndsWith(p.url, ".css") /\ ~EndsWith(p.url, ".js")
    /\ ~EndsWith(p.url, ".ico") /\ ~EndsWith(p.url, ".png")

\* the healthScore -= n that accompanies the push of an issue of each type
HealthPenalty(type) ==
    CASE type = "http_error" -> 20
      [] type = "redirect" -> 10
      [] type = "duplicate_title" -> 5
      [] type = "missing_title" -> 10
      [] type = "missing_meta_description" -> 10
      [] type = "missing_robots_txt" -> 10
      [] type = "missing_sitemap" -> 15
      [] type = "thin_content" -> 3
      [] type = "non_html_crawled" -> 2

RECURSIVE SumPenalties(_)
SumPenalties(issues) ==
    IF issues = <<>> THEN 0
    ELSE HealthPenalty(Head(issues).type) + SumPenalties(Tail(issues))

\* a final score that is not floored
FinalHealthScore_NoFloor(healthScore) == healthScore

\* line 211: healthScore = Math.max(0, healthScore)
FinalHealthScore(healthScore) == Max(0, healthScore)

\* lines 83-235
runHealthChecks(snap) ==
    LET keyPages == FilterHealthKeyPages(snap.pages, snap)
        healthIssues ==
            StatusIssues(snap.pages)
            \o DuplicateTitleIssues(snap.pages, {})
            \o MissingFieldIssues(keyPages, "title", "missing_title")
            \o MissingFieldIssues(keyPages, "meta_description",
                                  "missing_meta_description")
            \o AvailabilityIssues(snap)
            \o HealthThinIssues(snap.pages)
            \o NonHtmlIssues(snap)
    IN  [ health_score |-> FinalHealthScore(100 - SumPenalties(healthIssues)),
          total_issues |-> Len(healthIssues),
          critical_issues |-> CountSeverity(healthIssues, "critical"),
          high_issues |-> CountSeverity(healthIssues, "high"),
          medium_issues |-> CountSeverity(healthIssues, "medium"),
          low_issues |-> CountSeverity(healthIssues, "low"),
          issues |-> healthIssues,
          summary |->
            [ pages_crawled |-> Len(snap.pages),
              html_pages |->
                  Cardinality({k \in 1..Len(snap.pages) :
                                  IsHtmlPage(snap.pages[k])}),
              key_pages_identified |->
                  IF Has(snap, "key_pages") THEN Len(snap.key_pages)
                  ELSE 0 ] ]

----------------------------------------------------------------------------
(* Inputs of the analyzers: the snapshots found in data/site_snapshot.json *)

MaxAnPages == 2     \* pages in a snapshot given to the analyzers

APage(url, status, title, desc, nh1, words, links, sd) ==
    [ url |-> url, status_code |-> status,
      title |-> title, meta_description |-> desc,
      h1 |-> [k \in 1..nh1 |-> Text(8, 8)],
      h2 |-> <<>>,
      structured_data |-> sd,
      word_count |-> words,
      images |-> <<>>,
      internal_links |-> links, external_links |-> 0 ]

APagePool ==
    { APage(<<HostH, "/">>, 200, Text(10, 10), Text(60, 60), 1, 500, 3,
            <<JsonLd("Organization", SchemaOrg)>>),
      APage(<<HostH, "/a">>, 404, EmptyText, EmptyText, 0, 0, 1, <<>>),
      APage(<<HostH, "/b">>, 301, Text(10, 10), Text(60, 60), 0, 120, 0, <<>>),
      APage(<<HostH, "/c">>, 200, Text(12, 12), Text(3, 0), 1, 0, 0,
            <<JsonLd("FAQPage", ""), JsonLd("Person", SchemaOrg)>>),
      APage(<<HostH, "/d">>, 200, Text(7, 7), EmptyText, 2, 99, 0,
            <<JsonLd("HowTo", SchemaOrg)>>),
      APage(<<HostH, "/e">>, 500, EmptyText, EmptyText, 0, 100, 2, <<>>),
      APage(<<HostH, "/logo", ".png">>, 200, EmptyText, EmptyText, 0, 0, 0,
            <<>>),
      APage(<<HostH, "/style", ".CSS">>, 200, EmptyText, EmptyText, 0, 40, 0,
            <<>>),
      ErrorRecord(<<HostH, "/missing">>, "fetch failed") }

APageLists ==
    { ps \in SeqsUpTo(APagePool, MaxAnPages) : DistinctUrls(ps) }

\* the snapshot of the crawler, with or without the robots.txt and sitemap
\* records that the enrichment adds
ASnapshots ==
    LET Base == { [website_url |-> w, pages_crawled |-> Len(ps),
                   pages |-> ps, key_entities |-> <<>>] :
                    w \in Seeds, ps \in APageLists }
        Robots == { [exists |-> FALSE], [exists |-> TRUE] }
        Sitemaps == { <<>>, <<"https://h/sitemap.xml">> }
    IN  Base
        \cup { b @@ [robots_txt |-> r] : b \in Base, r \in Robots }
        \cup { b @@ [sitemaps |-> m] : b \in Base, m \in Sitemaps }
        \cup { b @@ [robots_txt |-> r, sitemaps |-> m] :
                 b \in Base, r \in Robots, m \in Sitemaps }

----------------------------------------------------------------------------
(* Properties of the health checks *)

HealthIssueTypes ==
    { anResults.health[1].issues[k].type :
        k \in 1..Len(anResults.health[1].issues) }

NoRobotsNoSitemap ==
    /\ Has(anSnapshot, "robots_txt") /\ ~anSnapshot.robots_txt.exists
    /\ Has(anSnapshot, "sitemaps") /\ anSnapshot.sitemaps = <<>>

\* C11: for every snapshot with robots_txt.exists false and an empty list
\* of sitemaps, whatever its pages, the issues of the health checks contain
\* a missing_robots_txt and a missing_sitemap issue; the health score of
\* every result lies in 0..100.
C11_RobotsSitemapReported ==
    anResults.health # <<>> =>
        /\ NoRobotsNoSitemap =>
               {"missing_robots_txt", "missing_sitemap"}
                   \subseteq HealthIssueTypes
        /\ anResults.health[1].health_score \in 0..100

\* a snapshot without robots.txt and sitemaps whose pages cost more than 100
\* points has been checked: both issues are there and the score is 0
C11_Witness ==
    /\ anResults.health # <<>>
    /\ NoRobotsNoSitemap
    /\ Len(anSnapshot.pages) = MaxAnPages
    /\ SumPenalties(anResults.health[1].issues) > 100
    /\ anResults.health[1].health_score = 0
    /\ {"missing_robots_txt", "missing_sitemap"} \subseteq HealthIssueTypes

----------------------------------------------------------------------------
(* Monitoring engine: lib/monitoring.js                                     *)
(* Time is the number of monitoring operations performed so far; it stands *)
(* for new Date().toISOString().                                           *)

HistoryLimit == 30

\* currentSnapshot.pages_crawled || 0
PageCount(s) == IF Has(s, "pages_crawled") THEN s.pages_crawled ELSE 0

\* s[section]?.[field] || 0
SectionValue(s, section, field) ==
    IF Has(s, section) /\ Has(s[section], field) THEN s[section][field] ELSE 0

\* lines 80-85: health_checks?.health_score || citation_readiness?.
\* citation_score || content_coverage?.coverage_score || 0
ScoreChain(s) ==
    LET h == SectionValue(s, "health_checks", "health_score")
        c == SectionValue(s, "citation_readiness", "citation_score")
        v == SectionValue(s, "content_coverage", "coverage_score")
    IN  IF h # 0 THEN h ELSE IF c # 0 THEN c ELSE v

\* a score read from the section of the metric itself
ScoreOf_OwnSection(s, metric) ==
    IF metric = "health_score"
    THEN SectionValue(s, "health_checks", "health_score")
    ELSE IF metric = "citation_score"
    THEN SectionValue(s, "citation_readiness", "citation_score")
    ELSE SectionValue(s, "content_coverage", "coverage_score")

\* lines 79-85: the score the loop body computes for the metric of the
\* iteration; the expression does not mention the loop variable
ScoreOf(s, metric) == ScoreChain(s)

\* an issue count that falls back to the number of pages
IssueCount_OrPages(s) ==
    IF Has(s, "compilation_summary")
    THEN SectionValue(s, "compilation_summary", "total_issues_found")
    ELSE PageCount(s)

\* lines 104-105: compilation_summary?.total_issues_found || 0
IssueCount(s) == SectionValue(s, "compilation_summary", "total_issues_found")

RECURSIVE SumStructuredData(_)
SumStructuredData(ps) ==
    IF ps = <<>> THEN 0
    ELSE (IF Has(Head(ps), "structured_data")
          THEN Len(Head(ps).structured_data) ELSE 0)
         + SumStructuredData(Tail(ps))

\* lines 118-121: pages?.reduce((sum, p) => sum +
\* (p.structured_data?.length || 0), 0) || 0
StructuredDataCount(s) ==
    IF Has(s, "pages") THEN SumStructuredData(s.pages) ELSE 0

Metrics == <<"health_score", "citation_score", "content_coverage_score">>
MetricSet == {Metrics[k] : k \in 1..Len(Metrics)}

\* the entry pushed on diff.changes
Change(type, baseline, current) ==
    [ type |-> type, baseline |-> baseline, current |-> current,
      delta |-> current - baseline ]

\* a has_changes flag that only the page count branch sets
HasChanges_PageCountOnly(pageCount, scores, issues, structuredData) ==
    pageCount

\* lines 68, 93, 113, 130: diff.summary.has_changes = true in each branch
HasChanges(pageCount, scores, issues, structuredData) ==
    pageCount \/ scores \/ issues \/ structuredData

\* lines 48-134
compareWithBaseline(currentSnapshot, baseline, now) ==
    LET currentPageCount == PageCount(currentSnapshot)
        baselinePageCount == PageCount(baseline)
        currentScore == [m \in MetricSet |-> ScoreOf(currentSnapshot, m)]
        baselineScore == [m \in MetricSet |-> ScoreOf(baseline, m)]
        changed == {m \in MetricSet : currentScore[m] # baselineScore[m]}
        ScoreChanges[k \in 0..Len(Metrics)] ==
            IF k = 0 THEN <<>>
            ELSE ScoreChanges[k - 1]
                 \o (IF Metrics[k] \in changed
                     THEN <<Change(Metrics[k], baselineScore[Metrics[k]],
                                   currentScore[Metrics[k]])>>
                     ELSE <<>>)
        currentIssues == IssueCount(currentSnapshot)
        baselineIssues == IssueCount(baseline)
        currentStructuredData == StructuredDataCount(currentSnapshot)
        baselineStructuredData == StructuredDataCount(baseline)
        pageChange == currentPageCount # baselinePageCount
        scoreChange == changed # {}
        issuesChange == currentIssues # baselineIssues
        sdChange == currentStructuredData # baselineStructuredData
    IN  [ timestamp |-> now,
          changes |->
              (IF pageChange
               THEN <<Change("page_count", baselinePageCount,
                             currentPageCount)>>
               ELSE <<>>)
              \o ScoreChanges[Len(Metrics)]
              \o (IF issuesChange
                  THEN <<Change("issues_count", baselineIssues,
                                currentIssues)>>
                  ELSE <<>>)
              \o (IF sdChange
                  THEN <<Change("structured_data_count",
                                baselineStructuredData,
                                currentStructuredData)>>
                  ELSE <<>>),
          summary |->
            [ has_changes |->
                  HasChanges(pageChange, scoreChange, issuesChange, sdChange),
              pages_added |->
                  IF pageChange
                  THEN Max(0, currentPageCount - baselinePageCount) ELSE 0,
              pages_removed |->
                  IF pageChange
                  THEN Max(0, baselinePageCount - currentPageCount) ELSE 0,
              scores |->
                  [ m \in changed |->
                      [ baseline |-> baselineScore[m],
                        current |-> currentScore[m],
                        delta |-> currentScore[m] - baselineScore[m] ] ] ] ]

\* change.type.includes('score'), for the types compareWithBaseline pushes
TypeIncludesScore(type) ==
    type \in {"health_score", "citation_score", "content_coverage_score"}

\* a gate that also opens when the drop equals the limit
DropExceeds_Inclusive(delta, limit) == delta <= -limit

\* lines 152 and 159: change.delta < -limit
DropExceeds(delta, limit) == delta < -limit

Abs_(n) == IF n < 0 THEN -n ELSE n

\* a template literal: its fixed text and the values interpolated in it
Message(subject, amount, text) ==
    [subject |-> subject, amount |-> amount, text |-> text]

\* lines 145-166: the alerts of one change
AlertsOf(change, thresholds) ==
    (IF change.type = "issues_count"
        /\ change.delta > thresholds.new_issues_critical
     THEN <<[level |-> "critical",
             message |-> Message("", change.delta, "new issues detected")]>>
     ELSE <<>>)
    \o (IF TypeIncludesScore(change.type)
           /\ DropExceeds(change.delta, thresholds.score_drop_above)
        THEN <<[level |-> "warning",
                message |-> Message(change.type, Abs_(change.delta),
                                    "dropped by points")]>>
        ELSE <<>>)
    \o (IF change.type = "page_count"
           /\ DropExceeds(change.delta, thresholds.pages_removed_above)
        THEN <<[level |-> "warning",
                message |-> Message("", Abs_(change.delta),
                                    "pages removed")]>>
        ELSE <<>>)

RECURSIVE AlertsOfAll(_, _)
AlertsOfAll(changes, thresholds) ==
    IF changes = <<>> THEN <<>>
    ELSE AlertsOf(Head(changes), thresholds)
         \o AlertsOfAll(Tail(changes), thresholds)

\* lines 142-169
checkThresholds(diff, thresholds) == AlertsOfAll(diff.changes, thresholds)

\* a check of the configuration that only looks for the file
MonitoringDisabled_AbsentOnly(config) == config = <<>>

\* lines 177-181, with loadMonitoringConfig (16-22): config is <<>> when
\* config/monitoring.json does not exist
MonitoringDisabled(config) ==
    config = <<>> \/ ~config[1].monitoring.enabled

\* lines 27-40: <<>> stands for null
loadBaseline(config, files) ==
    IF config = <<>> \/ ~Has(config[1].monitoring, "baseline_snapshot")
    THEN <<>>
    ELSE files[config[1].monitoring.baseline_snapshot]

\* a slice that keeps the oldest entries
KeepLast_Oldest(h, n) == IF Len(h) > n THEN SubSeq(h, 1, n) ELSE h

\* lines 204-206: if (length > 30) history = history.slice(-30)
KeepLast(h, n) ==
    IF Len(h) > n THEN SubSeq(h, Len(h) - n + 1, Len(h)) ELSE h

\* an update that keeps only the new entry
PushHistory_Replace(config, entry) ==
    [history |-> <<entry>>] @@ config

\* an update that also stamps the monitoring section
PushHistory_Stamped(config, entry) ==
    [ history |->
        KeepLast((IF Has(config, "history") THEN config.history ELSE <<>>)
                 \o <<entry>>, HistoryLimit),
      monitoring |->
        [last_checked_at |-> entry.checked_at] @@ config.monitoring ]
    @@ config

\* lines 196-206: config.history = config.history || []; push; slice
PushHistory(config, entry) ==
    [history |->
        KeepLast((IF Has(config, "history") THEN config.history ELSE <<>>)
                 \o <<entry>>, HistoryLimit)] @@ config

\* line 214: alerts.length > 0 ? 'alerts' : 'ok'
StatusOf(alerts) == IF Len(alerts) > 0 THEN "alerts" ELSE "ok"

\* lines 176-219: the value returned and, in write, <<the config written to
\* config/monitoring.json>> or <<>> when nothing is written
runMonitoringCheck(config, files, currentSnapshot, now) ==
    IF MonitoringDisabled(config)
    THEN [result |-> [status |-> "disabled"], write |-> <<>>]
    ELSE LET baseline == loadBaseline(config, files)
         IN  IF baseline = <<>>
             THEN [result |-> [status |-> "no_baseline"], write |-> <<>>]
             ELSE LET diff == compareWithBaseline(currentSnapshot,
                                                  baseline[1], now)
                      alerts == checkThresholds(
                                    diff, config[1].monitoring.alert_thresholds)
                      entry == [checked_at |-> diff.timestamp, diff |-> diff,
                                alerts |-> alerts]
                  IN  [ result |-> [status |-> StatusOf(alerts),
                                    diff |-> diff, alerts |-> alerts],
                        write |-> <<PushHistory(config[1], entry)>> ]

BaselinePath == "data/baseline_snapshot.json"
OtherPath == "data/old_baseline.json"
BaselinePaths == {BaselinePath, OtherPath}

\* run_monitoring.js createBaseline, lines 297-301: the baseline written
Baseline(snap, now) == [baseline_created_at |-> now] @@ snap

\* run_monitoring.js createBaseline, lines 306-309: the config written
WithBaseline(config, now) ==
    [monitoring |->
        [baseline_snapshot |-> BaselinePath, baseline_created_at |-> now]
        @@ config.monitoring] @@ config

----------------------------------------------------------------------------
(* Inputs of the monitoring engine *)

MaxChecks == 35   \* monitoring operations in one run of the model
MaxVaried == 2    \* operations after which the snapshot no longer changes

MPage(n) ==
    [ url |-> <<HostH, "/a">>, status_code |-> 200,
      structured_data |-> [k \in 1..n |-> JsonLd("Organization", SchemaOrg)] ]

\* a snapshot as the crawler writes it
Crawled(n, sd) ==
    [ website_url |-> <<HostH>>, pages_crawled |-> n,
      pages |-> [k \in 1..n |-> MPage(IF k <= sd THEN 1 ELSE 0)] ]

\* a snapshot that also carries the results of the audit
Audited(n, sd, health, citation, coverage, issuesFound) ==
    [ health_checks |-> [health_score |-> health],
      citation_readiness |-> [citation_score |-> citation],
      content_coverage |-> [coverage_score |-> coverage],
      compilation_summary |-> [total_issues_found |-> issuesFound] ]
    @@ Crawled(n, sd)

MSnapshots ==
    { Crawled(3, 1), Crawled(1, 0),
      Audited(3, 1, 80, 60, 70, 4), Audited(3, 1, 65, 60, 70, 6),
      Audited(2, 1, 75, 60, 70, 4), Audited(3, 2, 0, 55, 70, 5),
      Audited(3, 1, 80, 45, 70, 4) }

\* scheduler.md, lines 71-74: the documented thresholds
DocumentedThresholds ==
    [new_issues_critical |-> 0, score_drop_above |-> 10,
     pages_removed_above |-> 1]

StrictThresholds ==
    [new_issues_critical |-> 2, score_drop_above |-> 5,
     pages_removed_above |-> 0]

MConfig(enabled, thresholds) ==
    [monitoring |-> [enabled |-> enabled, alert_thresholds |-> thresholds]]

MFiles(b) == [p \in BaselinePaths |-> IF p = BaselinePath THEN b ELSE <<>>]

OldBaseline == <<Baseline(Audited(3, 1, 80, 60, 70, 4), 0)>>

\* the pairs <<config file, baseline files>> a run starts from
MonStarts ==
    { <<<<>>, MFiles(<<>>)>>,
      <<<<>>, MFiles(OldBaseline)>>,
      << <<WithBaseline(MConfig(FALSE, DocumentedThresholds), 0)>>,
         MFiles(OldBaseline) >>,
      << <<MConfig(TRUE, DocumentedThresholds)>>, MFiles(<<>>) >>,
      << <<[monitoring |-> [baseline_snapshot |-> OtherPath]
                           @@ MConfig(TRUE, DocumentedThresholds).monitoring]>>,
         MFiles(OldBaseline) >>,
      << <<WithBaseline(MConfig(TRUE, DocumentedThresholds), 0)>>,
         MFiles(<<>>) >>,
      << <<[history |-> <<>>]
           @@ WithBaseline(MConfig(TRUE, DocumentedThresholds), 0)>>,
         MFiles(OldBaseline) >>,
      << <<WithBaseline(MConfig(TRUE, StrictThresholds), 0)>>,
         MFiles(OldBaseline) >> }

MonInit ==
    /\ CrawlIdle /\ KPIdle /\ CCIdle /\ AnIdle /\ SdIdle
    /\ VjIdle /\ EnIdle
    /\ \E start \in MonStarts :
           monConfig = start[1] /\ monFiles = start[2]
    /\ monClock = 0
    /\ monLast = [op |-> "none"]
    /\ monLog = <<>>
    /\ mcProc = [p \in Procs |-> ProcIdle]

\* the snapshots an operation may be given: any during the first
\* operations, then the one of the operation before
Arguments ==
    IF monClock < MaxVaried THEN MSnapshots ELSE {monLast.snapshot}

\* run_monitoring.js --check, lines 401-409: the current snapshot is loaded
\* and monitoring.runMonitoringCheck runs to its end
RunMonitoringCheck ==
    /\ monClock < MaxChecks
    /\ \E currentSnapshot \in Arguments :
         LET out == runMonitoringCheck(monConfig, monFiles, currentSnapshot,
                                       monClock)
         IN  /\ monConfig' = IF out.write = <<>> THEN monConfig ELSE out.write
             /\ monLog' = IF out.write = <<>> THEN monLog
                          ELSE Append(monLog,
                                      out.write[1].history[
                                          Len(out.write[1].history)])
             /\ monLast' = [op |-> "runCheck", snapshot |-> currentSnapshot,
                            result |-> out.result]
    /\ monClock' = monClock + 1
    /\ UNCHANGED <<monFiles, mcProc, crawlVars, kpVars, ccVars, anVars,
                   sdVars, vjVars, enVars>>

\* run_monitoring.js --baseline, lines 364-372 and createBaseline (294-313):
\* the baseline file is written, then config/monitoring.json is read, which
\* throws when the file does not exist, updated and written
CreateBaseline ==
    /\ monClock < MaxVaried
    /\ \E snap \in Arguments :
         /\ monFiles' = [monFiles EXCEPT
                            ![BaselinePath] = <<Baseline(snap, monClock)>>]
         /\ IF monConfig = <<>>
            THEN /\ monConfig' = monConfig
                 /\ monLast' = [op |-> "createBaseline", snapshot |-> snap,
                                result |-> [status |-> "threw"]]
            ELSE /\ monConfig' = <<WithBaseline(monConfig[1], monClock)>>
                 /\ monLast' = [op |-> "createBaseline", snapshot |-> snap,
                                result |-> [status |-> "created"]]
    /\ monClock' = monClock + 1
    /\ UNCHANGED <<monLog, mcProc, crawlVars, kpVars, ccVars, anVars, sdVars,
                   vjVars, enVars>>

MonNext == RunMonitoringCheck \/ CreateBaseline
SpecMon == MonInit /\ [][MonNext]_vars

----------------------------------------------------------------------------
(* Properties of the monitoring engine *)

Compared == monLast.op = "runCheck" /\ Has(monLast.result, "diff")

NoChanges(diff) ==
    /\ diff.changes = <<>>
    /\ ~diff.summary.has_changes
    /\ diff.summary.pages_added = 0
    /\ diff.summary.pages_removed = 0
    /\ DOMAIN diff.summary.scores = {}

\* the baseline in use was made from the snapshot of the last operation
BaselineIsArgument ==
    loadBaseline(monConfig, monFiles) =
        <<Baseline(monLast.snapshot,
                   loadBaseline(monConfig, monFiles)[1].baseline_created_at)>>

HistoryOf(config) ==
    IF config # <<>> /\ Has(config[1], "history") THEN config[1].history
    ELSE <<>>

\* C12: comparing a snapshot with itself gives a Diff with no changes,
\* has_changes false, pages_added 0, pages_removed 0 and no score entries,
\* both for the two arguments being the same value and for a check run
\* against the baseline made from the same snapshot; in every Diff
\* has_changes is true iff the list of changes is not empty.
C12_SelfCompareEmpty ==
    /\ monLast.op # "none" =>
           NoChanges(compareWithBaseline(monLast.snapshot, monLast.snapshot,
                                         monClock))
    /\ (Compared /\ BaselineIsArgument) => NoChanges(monLast.result.diff)
    /\ Compared =>
           (monLast.result.diff.summary.has_changes
               <=> monLast.result.diff.changes # <<>>)
    /\ \A k \in 1..Len(HistoryOf(monConfig)) :
           HistoryOf(monConfig)[k].diff.summary.has_changes
               <=> HistoryOf(monConfig)[k].diff.changes # <<>>

\* a check against a baseline made from the snapshot being checked has
\* found no change, after an earlier check that found changes
C12_Witness ==
    /\ Compared /\ BaselineIsArgument
    /\ monLast.result.diff.changes = <<>>
    /\ monLast.result.status = "ok"
    /\ \E k \in 1..Len(HistoryOf(monConfig)) :
           LET d == HistoryOf(monConfig)[k].diff
           IN  /\ d.summary.has_changes
               /\ Len(d.changes) > 0

\* C13: after n checks that performed a comparison, the history in the
\* config file holds exactly the most recent min(n, 30) entries, in call
\* order; it never holds more than 30 entries.
C13_HistoryKeepsLast30 ==
    LET n == Len(monLog)
        h == HistoryOf(monConfig)
        m == Min(n, 30)
    IN  /\ Len(h) = m
        /\ Len(h) <= 30
        /\ \A i \in 1..m : h[i] = monLog[n - m + i]

\* 35 checks have compared: the history holds the entries 6 to 35
C13_Witness ==
    /\ Len(monLog) = 35
    /\ Len(HistoryOf(monConfig)) = 30
    /\ HistoryOf(monConfig)[1] = monLog[6]
    /\ HistoryOf(monConfig)[30] = monLog[35]
    /\ \A i \in 1..35 : monLog[i].checked_at = i - 1

\* the baseline pointer of the config refers to an existing baseline whose
\* content, apart from the creation time, is the snapshot snap
PointsToBaselineOf(snap) ==
    /\ monConfig # <<>>
    /\ Has(monConfig[1].monitoring, "baseline_snapshot")
    /\ LET file == monFiles[monConfig[1].monitoring.baseline_snapshot]
       IN  /\ file # <<>>
           /\ DOMAIN file[1] = DOMAIN snap \cup {"baseline_created_at"}
           /\ \A f \in DOMAIN snap : file[1][f] = snap[f]

\* C14: createBaseline(snapshot) is possible in every monitoring state,
\* the state without a config file included; it always succeeds, and
\* afterwards the baseline pointer of the config refers to a baseline whose
\* content is the given snapshot.
C14_CreateBaselineAlwaysSucceeds ==
    monLast.op = "createBaseline" =>
        /\ monLast.result.status = "created"
        /\ PointsToBaselineOf(monLast.snapshot)

\* what the code does guarantee: with a config file present the operation
\* succeeds and the pointer refers to the new baseline
CreateBaselineWithConfig ==
    (monLast.op = "createBaseline" /\ monConfig # <<>>) =>
        /\ monLast.result.status = "created"
        /\ PointsToBaselineOf(monLast.snapshot)

ConfigOff == monConfig = <<>> \/ ~monConfig[1].monitoring.enabled

BaselineUnavailable ==
    \/ ~Has(monConfig[1].monitoring, "baseline_snapshot")
    \/ monFiles[monConfig[1].monitoring.baseline_snapshot] = <<>>

\* C15: a check returns one of the four statuses: 'disabled' iff the config
\* is absent or monitoring.enabled is false; otherwise 'no_baseline' iff the
\* baseline path is unset or the baseline file does not exist; otherwise
\* 'alerts' iff the thresholds produced at least one alert and 'ok' iff
\* they produced none.  (A check changes neither the enabled flag, nor the
\* baseline path, nor the baseline files.)
C15_StatusOfCheck ==
    monLast.op = "runCheck" =>
        LET status == monLast.result.status
        IN  /\ status \in {"disabled", "no_baseline", "alerts", "ok"}
            /\ status = "disabled" <=> ConfigOff
            /\ ~ConfigOff =>
                   /\ status = "no_baseline" <=> BaselineUnavailable
                   /\ ~BaselineUnavailable =>
                          /\ Has(monLast.result, "alerts")
                          /\ monLast.result.alerts =
                                 checkThresholds(
                                     monLast.result.diff,
                                     monConfig[1].monitoring.alert_thresholds)
                          /\ status = "alerts"
                                 <=> Len(monLast.result.alerts) >= 1
                          /\ status = "ok"
                                 <=> Len(monLast.result.alerts) = 0

\* a check has returned 'alerts' with several alerts, after an earlier
\* check of the same configuration that raised none and returned 'ok'
C15_Witness ==
    /\ monLast.op = "runCheck"
    /\ monLast.result.status = "alerts"
    /\ Len(monLast.result.alerts) > 1
    /\ ~ConfigOff /\ ~BaselineUnavailable
    /\ \E k \in 1..Len(HistoryOf(monConfig)) :
           HistoryOf(monConfig)[k].alerts = <<>>

\* the changes of a Diff that pass a gate
Passing(diff, gate, thresholds) ==
    { k \in 1..Len(diff.changes) :
        LET change == diff.changes[k]
        IN  CASE gate = "issues" ->
                   /\ change.type = "issues_count"
                   /\ change.delta > thresholds.new_issues_critical
              [] gate = "score" ->
                   /\ change.type \in {"health_score", "citation_score",
                                       "content_coverage_score"}
                   /\ change.delta < -thresholds.score_drop_above
              [] gate = "pages" ->
                   /\ change.type = "page_count"
                   /\ change.delta < -thresholds.pages_removed_above }

AlertsWith(alerts, level, text) ==
    { k \in 1..Len(alerts) :
        alerts[k].level = level /\ alerts[k].message.text = text }

----------------------------------------------------------------------------
(* Structured data collector: extractStructuredData                         *)
(* Besides the JSON-LD blocks a document holds its OpenGraph and Twitter   *)
(* meta tags, as functions from tag name to content, and its microdata     *)
(* items, each [element, itemType] with itemType a URL string.             *)

\* lines 482-490: parsed['@type'] throws a TypeError when parsed is null;
\* the catch of the loop is the only handler
ThrowsOnType(value) == value.json = "null"

\* lines 479-493, part 1: the JSON-LD loop
RECURSIVE JsonLdEntries(_)
JsonLdEntries(blocks) ==
    IF blocks = <<>> THEN <<>>
    ELSE IF Head(blocks).valid /\ ~ThrowsOnType(Head(blocks).data)
         THEN <<[ type |-> "json-ld",
                  schema |-> IF Head(blocks).data.at_type # ""
                             THEN Head(blocks).data.at_type ELSE "Unknown",
                  data |-> Head(blocks).data ]>>
              \o JsonLdEntries(Tail(blocks))
         ELSE JsonLdEntries(Tail(blocks))

\* tags[name] || fallback
TagOr(tags, name, fallback) ==
    IF name \in DOMAIN tags /\ tags[name] # "" THEN tags[name] ELSE fallback

\* lines 495-528, parts 2 and 3: one entry when there is at least one tag
TagEntry(tags, type, name, fallback) ==
    IF DOMAIN tags # {}
    THEN <<[type |-> type, schema |-> TagOr(tags, name, fallback),
            data |-> tags]>>
    ELSE <<>>

\* lines 530-550, part 4: schemaUrl.split('/').pop()
RECURSIVE MicrodataEntries(_)
MicrodataEntries(items) ==
    IF items = <<>> THEN <<>>
    ELSE <<[ type |-> "microdata",
             schema |-> Head(items).itemType[Len(Head(items).itemType)],
             data |-> Head(items) ]>>
         \o MicrodataEntries(Tail(items))

\* lines 476-553
extractStructuredData(html) ==
    JsonLdEntries(html.jsonld)
    \o TagEntry(html.og, "opengraph", "og:type", "website")
    \o TagEntry(html.twitter, "twitter-card", "twitter:card", "summary")
    \o MicrodataEntries(html.microdata)

----------------------------------------------------------------------------
(* Inputs of the extractors *)

MaxBlocks == 3     \* JSON-LD blocks in a document

SDBlocks ==
    { ValidBlock(JsonLd("Organization", SchemaOrg)),
      ValidBlock(JsonLd("", SchemaOrg)),
      ValidBlock(JsonArray),
      ValidBlock(JsonNull),
      MalformedBlock }

NoTags == [n \in {} |-> ""]

SDDocs ==
    { [ jsonld |-> blocks, og |-> og, twitter |-> tw, microdata |-> md ]
      @@ BareDoc(<<>>) :
        blocks \in SeqsUpTo(SDBlocks, MaxBlocks),
        og \in { NoTags, "og:type" :> "article", "og:title" :> "Home" },
        tw \in { NoTags, "twitter:site" :> "@h" },
        md \in { <<>>,
                 <<[element |-> "div",
                    itemType |-> <<SchemaOrg, "/Product">>]>> } }

SDInit ==
    /\ CrawlIdle /\ KPIdle /\ CCIdle /\ AnIdle /\ MonIdle
    /\ VjIdle /\ EnIdle
    /\ sdHtml \in SDDocs
    /\ sdOutput = <<>>

\* the HTML of a fetched page goes through the extractor of the collector
\* (main, line 625) and through the extractor of the crawler (crawler.js,
\* line 171)
ExtractPage ==
    /\ sdOutput = <<>>
    /\ sdOutput' = <<[ collector |-> extractStructuredData(sdHtml),
                       crawler |-> extractMeta(sdHtml).structured_data ]>>
    /\ UNCHANGED <<sdHtml, crawlVars, kpVars, ccVars, anVars, monVars, vjVars,
                   enVars>>

SDNext == ExtractPage
SpecSD == SDInit /\ [][SDNext]_vars

----------------------------------------------------------------------------
(* Properties of the extractors *)

\* the values of the blocks of the document that are valid JSON, in order
ValidValues(blocks) ==
    LET idx == {k \in 1..Len(blocks) : blocks[k].valid}
        nth(j) == CHOOSE k \in idx : Cardinality({i \in idx : i < k}) = j - 1
    IN  [j \in 1..Cardinality(idx) |-> blocks[nth(j)].data]

\* the data of the json-ld entries of a result of the collector, in order
JsonLdData(entries) ==
    LET idx == {k \in 1..Len(entries) : entries[k].type = "json-ld"}
        nth(j) == CHOOSE k \in idx : Cardinality({i \in idx : i < k}) = j - 1
    IN  [j \in 1..Cardinality(idx) |-> entries[nth(j)].data]

\* C17: of the JSON-LD blocks of a page the malformed ones are skipped one
\* by one and every valid one yields exactly one json-ld entry, in source
\* order, in the collector (typed entries) and in the crawler (the parsed
\* values); the extraction always returns.
C17_ValidBlocksKept ==
    sdOutput # <<>> =>
        /\ JsonLdData(sdOutput[1].collector) = ValidValues(sdHtml.jsonld)
        /\ sdOutput[1].crawler = ValidValues(sdHtml.jsonld)

\* what holds of the collector: one entry per valid block whose value is
\* not null
CollectorKeepsNonNull ==
    sdOutput # <<>> =>
        LET kept == ValidValues(sdHtml.jsonld)
            idx == {k \in 1..Len(kept) : kept[k] # JsonNull}
            nth(j) == CHOOSE k \in idx :
                          Cardinality({i \in idx : i < k}) = j - 1
        IN  JsonLdData(sdOutput[1].collector)
                = [j \in 1..Cardinality(idx) |-> kept[nth(j)]]

----------------------------------------------------------------------------
(* Monitoring checks in two separate processes                              *)
(* Within one process runMonitoringCheck is synchronous; between processes *)
(* the reads of the files (lines 177-185) and the write of the config      *)
(* (lines 208-211) of different checks may interleave.  Each process keeps *)
(* a record of the checks it has finished: the time of the check, whether  *)
(* it wrote the config, and whether it overlapped a check of the other     *)
(* process.                                                                *)

MaxRuns == 2     \* checks run by one process

ConcSnapshots == { Crawled(3, 1), Audited(3, 1, 65, 60, 70, 6) }

ConcInit ==
    /\ CrawlIdle /\ KPIdle /\ CCIdle /\ AnIdle /\ SdIdle
    /\ VjIdle /\ EnIdle
    /\ \E start \in MonStarts :
           monConfig = start[1] /\ monFiles = start[2]
    /\ monClock = 0
    /\ monLast = [op |-> "none"]
    /\ monLog = <<>>
    /\ mcProc = [p \in Procs |-> ProcIdle]

\* lines 177-206 in process p: the config and the baseline are read, the
\* Diff and the alerts computed and the history updated in memory
CheckLoad(p) ==
    /\ mcProc[p].pc = "idle"
    /\ Len(mcProc[p].finished) < MaxRuns
    /\ \E currentSnapshot \in ConcSnapshots :
         LET out == runMonitoringCheck(monConfig, monFiles, currentSnapshot,
                                       monClock)
             busy == {q \in Procs \ {p} : mcProc[q].pc = "loaded"}
         IN  mcProc' =
                 [q \in Procs |->
                     IF q = p
                     THEN [pc |-> "loaded", finished |-> mcProc[p].finished,
                           at |-> monClock, out |-> out,
                           overlapped |-> busy # {}]
                     ELSE IF q \in busy
                          THEN [mcProc[q] EXCEPT !.overlapped = TRUE]
                          ELSE mcProc[q]]
    /\ monClock' = monClock + 1
    /\ UNCHANGED <<monConfig, monFiles, monLast, monLog>>
    /\ UNCHANGED <<crawlVars, kpVars, ccVars, anVars, sdVars, vjVars, enVars>>

\* lines 208-218 in process p: the config is written and the check returns;
\* a check that is disabled or has no baseline returns without writing
CheckWrite(p) ==
    /\ mcProc[p].pc = "loaded"
    /\ LET out == mcProc[p].out
       IN  /\ monConfig' = IF out.write = <<>> THEN monConfig ELSE out.write
           /\ monLog' = IF out.write = <<>> THEN monLog
                        ELSE Append(monLog,
                                    out.write[1].history[
                                        Len(out.write[1].history)])
           /\ mcProc' =
                  [mcProc EXCEPT ![p] =
                      [pc |-> "idle",
                       finished |->
                           Append(mcProc[p].finished,
                                  [at |-> mcProc[p].at,
                                   wrote |-> out.write # <<>>,
                                   overlapped |-> mcProc[p].overlapped])]]
    /\ UNCHANGED <<monFiles, monClock, monLast>>
    /\ UNCHANGED <<crawlVars, kpVars, ccVars, anVars, sdVars, vjVars, enVars>>

ConcNext == \E p \in Procs : CheckLoad(p) \/ CheckWrite(p)
SpecConc == ConcInit /\ [][ConcNext]_vars

----------------------------------------------------------------------------
(* Properties of concurrent checks *)

\* the checks finished so far
FinishedChecks ==
    UNION { { mcProc[p].finished[k] : k \in 1..Len(mcProc[p].finished) } :
            p \in Procs }

Overlapped ==
    \/ \E c \in FinishedChecks : c.overlapped
    \/ \E p \in Procs : mcProc[p].pc = "loaded" /\ mcProc[p].overlapped

InHistory(c) ==
    \E k \in 1..Len(HistoryOf(monConfig)) :
        HistoryOf(monConfig)[k].checked_at = c.at

\* C18: as long as the checks of the two processes run one after the
\* other, the history in the config file holds the entry of every check
\* that has written, in the order of the writes.  (That interleaved checks
\* lose an entry is shown by the reachable state C18_Witness.)
C18_SequentialKeepsBoth ==
    ~Overlapped =>
        /\ HistoryOf(monConfig) = monLog
        /\ \A c \in FinishedChecks : c.wrote => InHistory(c)

\* a lost update: after a check that ran alone and whose entry is kept,
\* two checks interleaved, both wrote and returned, and the history holds
\* the entry of only one of them
C18_Witness ==
    /\ \A p \in Procs : mcProc[p].pc = "idle"
    /\ \E c \in FinishedChecks : ~c.overlapped /\ c.wrote /\ InHistory(c)
    /\ \E c, d \in FinishedChecks :
           /\ c # d
           /\ c.overlapped /\ d.overlapped
           /\ c.wrote /\ d.wrote
           /\ ~InHistory(c) /\ InHistory(d)
    /\ Len(monLog) = 3
    /\ Len(HistoryOf(monConfig)) = 2

----------------------------------------------------------------------------
(* Citation readiness checker: checkCitationReadiness                       *)
(* An entry of structured_data is a parsed JSON-LD value (crawler) or a    *)
(* typed {type, schema, data} entry (collector); sd['@type'] of the latter *)
(* is undefined, and reading it from null throws.                          *)

AtType(sd) == IF Has(sd, "at_type") THEN sd.at_type ELSE ""
AtContext(sd) == IF Has(sd, "at_context") THEN sd.at_context ELSE ""
IsNullEntry(sd) == Has(sd, "json") /\ sd.json = "null"

\* the pages whose structured_data is present and not empty
PagesWithData(ps) ==
    {k \in 1..Len(ps) : Has(ps[k], "structured_data")
                        /\ Len(ps[k].structured_data) > 0}

\* the structured data entries of all pages
AllEntries(ps) ==
    UNION { { ps[k].structured_data[j] :
                j \in 1..Len(ps[k].structured_data) } :
            k \in PagesWithData(ps) }

\* the keywords contained in a text of the model, in lower case
KeywordsIn(text) ==
    IF text = Text(12, 12) THEN {"about", "team"}
    ELSE IF text = Text(7, 7) THEN {"contact"}
    ELSE {}

KeywordsInAll(texts) == UNION { KeywordsIn(texts[k]) : k \in 1..Len(texts) }

\* lines 291-293: the keywords in title, meta description, h1 and h2
PageKeywords(p) ==
    (IF Has(p, "title") THEN KeywordsIn(p.title) ELSE {})
    \cup (IF Has(p, "meta_description") THEN KeywordsIn(p.meta_description)
          ELSE {})
    \cup (IF Has(p, "h1") THEN KeywordsInAll(p.h1) ELSE {})
    \cup (IF Has(p, "h2") THEN KeywordsInAll(p.h2) ELSE {})

authorKeywords == {"author", "about", "team", "contact", "privacy", "terms"}

\* (p.word_count || 0)
WordCountOr0(p) == IF Has(p, "word_count") THEN p.word_count ELSE 0

\* lines 244-418; a TypeError is the result when an entry is null
checkCitationReadiness(siteSnapshot) ==
    LET ps == siteSnapshot.pages
        entries == AllEntries(ps)
        hasSchemaOrg ==
            \E sd \in entries : AtType(sd) = "SchemaOrg"
                                \/ AtContext(sd) = SchemaOrg
        hasAuthorSchema ==
            \E sd \in entries : AtType(sd) \in {"Person", "Author"}
        hasOrganizationSchema ==
            \E sd \in entries : AtType(sd) \in {"Organization", "Corporation"}
        hasFAQSchema ==
            \E sd \in entries :
                \/ AtType(sd) = "FAQPage"
                \/ (Has(sd, "mainEntity") /\ sd.mainEntity.json = "array")
        hasHowToSchema == \E sd \in entries : AtType(sd) = "HowTo"
        structuredDataScore == Min(10 * Cardinality(PagesWithData(ps)), 40)
        found == authorKeywords
                 \cap UNION { PageKeywords(ps[k]) : k \in 1..Len(ps) }
        hasAuthorInfo == found \cap {"author", "team"} # {}
        eatScore == Min(5 * Cardinality(found)
                        + (IF hasOrganizationSchema THEN 5 ELSE 0), 30)
        pagesWithContent ==
            Cardinality({k \in 1..Len(ps) : WordCountOr0(ps[k]) > 100})
        pagesWithHeadings ==
            Cardinality({k \in 1..Len(ps) :
                            \/ (Has(ps[k], "h1") /\ Len(ps[k].h1) > 0)
                            \/ (Has(ps[k], "h2") /\ Len(ps[k].h2) > 0)})
        contentScore == Min(pagesWithContent * 7, 20)
                        + Min(pagesWithHeadings * 5, 10)
        thin == {k \in 1..Len(ps) : WordCountOr0(ps[k]) < 50}
        issues ==
            (IF ~hasSchemaOrg
             THEN <<SiteIssue("missing_schema_org", "high", siteSnapshot)>>
             ELSE <<>>)
            \o (IF ~hasAuthorSchema /\ ~hasAuthorInfo
                THEN <<SiteIssue("missing_author_info", "medium",
                                 siteSnapshot)>>
                ELSE <<>>)
            \o (IF ~hasOrganizationSchema
                THEN <<SiteIssue("missing_organization_schema", "medium",
                                 siteSnapshot)>>
                ELSE <<>>)
            \o (IF ~hasFAQSchema
                THEN <<SiteIssue("missing_faq_schema", "low", siteSnapshot)>>
                ELSE <<>>)
            \o (IF ~hasHowToSchema
                THEN <<SiteIssue("missing_howto_schema", "low",
                                 siteSnapshot)>>
                ELSE <<>>)
            \o (IF thin # {}
                THEN <<SiteIssue("thin_content", "high", siteSnapshot)>>
                ELSE <<>>)
    IN  IF \E sd \in entries : IsNullEntry(sd)
        THEN [threw |-> "TypeError"]
        ELSE [ citation_score |->
                   structuredDataScore + eatScore + contentScore,
               max_score |-> 100,
               total_issues |-> Len(issues),
               high_severity |-> CountSeverity(issues, "high"),
               medium_severity |-> CountSeverity(issues, "medium"),
               low_severity |-> CountSeverity(issues, "low"),
               checks |->
                 [ structured_data |->
                     [ score |-> structuredDataScore, max |-> 40,
                       has_schema_org |-> hasSchemaOrg,
                       has_author_schema |-> hasAuthorSchema,
                       has_organization_schema |-> hasOrganizationSchema,
                       has_faq_schema |-> hasFAQSchema,
                       has_howto_schema |-> hasHowToSchema ],
                   eeat_signals |->
                     [ score |-> eatScore, max |-> 30,
                       has_author_info |-> hasAuthorInfo,
                       has_contact_info |-> "contact" \in found,
                       has_about_page |-> "about" \in found,
                       has_privacy_policy |-> "privacy" \in found ],
                   content_quality |->
                     [ score |-> contentScore, max |-> 30,
                       pages_with_substantial_content |-> pagesWithContent,
                       pages_with_headings |-> pagesWithHeadings ] ],
               issues |-> issues ]

----------------------------------------------------------------------------
(* Competitor gap analysis: analyzeCompetitorGaps                           *)
(* A competitor is a domain name, as in the documented customer.json.      *)

RECURSIVE SumWordCounts(_)
SumWordCounts(ps) ==
    IF ps = <<>> THEN 0
    ELSE WordCountOr0(Head(ps)) + SumWordCounts(Tail(ps))

\* line 49: the (sd['@type'] || 'unknown') of the entries of all pages
RECURSIVE EntryTypes(_)
EntryTypes(ps) ==
    IF ps = <<>> THEN <<>>
    ELSE (IF Has(Head(ps), "structured_data")
          THEN [j \in 1..Len(Head(ps).structured_data) |->
                   IF AtType(Head(ps).structured_data[j]) # ""
                   THEN AtType(Head(ps).structured_data[j]) ELSE "unknown"]
          ELSE <<>>)
         \o EntryTypes(Tail(ps))

\* lines 41-61
AnalysisFramework(siteSnapshot) ==
    [ content_depth |->
        [current_site_word_count |-> SumWordCounts(siteSnapshot.pages)],
      structured_data |->
        [current_site_structured_data_types |->
            Dedupe(EntryTypes(siteSnapshot.pages))],
      key_pages |->
        [current_site_key_pages |->
            IF Has(siteSnapshot, "key_pages")
            THEN [k \in 1..Len(siteSnapshot.key_pages) |->
                     siteSnapshot.key_pages[k].type]
            ELSE <<>>],
      seo_signals |->
        [ current_site_has_meta_descriptions |->
              Cardinality({k \in 1..Len(siteSnapshot.pages) :
                              Truthy(siteSnapshot.pages[k],
                                     "meta_description")}),
          current_site_has_h1 |->
              Cardinality({k \in 1..Len(siteSnapshot.pages) :
                              /\ Has(siteSnapshot.pages[k], "h1")
                              /\ Len(siteSnapshot.pages[k].h1) > 0}) ] ]

\* lines 64-76 and 115-127
Opportunities ==
    << [priority |-> "high", title |-> "Define Competitor List",
        effort |-> "low"],
       [priority |-> "medium", title |-> "Implement Competitor Crawling",
        effort |-> "high"] >>

\* lines 85-104
CompetitorAnalysis(competitor) ==
    [ domain |-> competitor, brand |-> "Unknown",
      gaps |-> <<[type |-> "competitor_crawl_required",
                  severity |-> "info"]>>,
      opportunities |-> <<>> ]

\* lines 16-130; a TypeError is the result when the framework reads the
\* '@type' of a null entry
analyzeCompetitorGaps(customer, siteSnapshot) ==
    IF ~Has(customer, "competitors") \/ Len(customer.competitors) = 0
    THEN IF \E sd \in AllEntries(siteSnapshot.pages) : IsNullEntry(sd)
         THEN [threw |-> "TypeError"]
         ELSE [ target_domain |-> customer.domain,
                target_brand |-> customer.brand_name,
                competitors_analyzed |-> <<>>,
                gaps |-> <<[type |-> "no_competitors_configured",
                            severity |-> "info"]>>,
                opportunities |-> Opportunities,
                score |-> 0, max_score |-> 100,
                status |-> "pending_competitor_config",
                analysis_framework |-> AnalysisFramework(siteSnapshot) ]
    ELSE [ target_domain |-> customer.domain,
           target_brand |-> customer.brand_name,
           competitors_analyzed |->
               [k \in 1..Len(customer.competitors) |->
                   CompetitorAnalysis(customer.competitors[k])],
           gaps |-> <<>>,
           opportunities |-> Opportunities,
           score |-> Min(50 * Len(customer.competitors), 100),
           max_score |-> 100,
           status |-> "analyzed" ]

----------------------------------------------------------------------------
(* The four analyzers as programs over the data directory                   *)
(* Each reads data/site_snapshot.json (the gap analysis also reads         *)
(* data/customer.json), computes its result and writes it to its own file. *)
(* anResults holds, per analyzer, the result of its run.                   *)

Analyzers == {"health", "citation", "coverage", "gap"}

SnapshotPath == "data/site_snapshot.json"

\* an analyzer that writes its result over the snapshot file
OutputPath_SnapshotFile(analyzer) == SnapshotPath

\* README.md:240, monitoring.js:423, part_001:154, competitor_gap.js:136
OutputPath(analyzer) ==
    CASE analyzer = "health" -> "data/health_checks.json"
      [] analyzer = "citation" -> "data/citation_readiness.json"
      [] analyzer = "coverage" -> "data/content_coverage.json"
      [] analyzer = "gap" -> "data/competitor_gap.json"

\* the result of an analyzer for the files it reads
ResultOf(analyzer, siteSnapshot, customer) ==
    CASE analyzer = "health" -> runHealthChecks(siteSnapshot)
      [] analyzer = "citation" -> checkCitationReadiness(siteSnapshot)
      [] analyzer = "coverage" -> analyzeContentCoverage(siteSnapshot)
      [] analyzer = "gap" -> analyzeCompetitorGaps(customer, siteSnapshot)

Customer(competitors) ==
    [ customer_id |-> "acme-corp", domain |-> "https://acme.com",
      brand_name |-> "Acme Corp", competitors |-> competitors ]

Customers ==
    { [customer_id |-> "acme-corp", domain |-> "https://acme.com",
       brand_name |-> "Acme Corp"],
      Customer(<<>>),
      Customer(<<"competitor1.com", "competitor2.com", "competitor3.com">>) }

AnInit ==
    /\ CrawlIdle /\ KPIdle /\ CCIdle /\ MonIdle /\ SdIdle
    /\ VjIdle /\ EnIdle
    /\ anSnapshot \in ASnapshots
    /\ anCustomer \in Customers
    /\ anResults = NoResults

\* one run of an analyzer: the files are read, the result is computed and
\* written to the output path of the analyzer
Run(analyzer) ==
    LET result == ResultOf(analyzer, anSnapshot, anCustomer)
    IN  /\ anResults[analyzer] = <<>>
        /\ anResults' = [anResults EXCEPT ![analyzer] = <<result>>]
        /\ anSnapshot' = IF OutputPath(analyzer) = SnapshotPath THEN result
                         ELSE anSnapshot
        /\ UNCHANGED <<anCustomer, crawlVars, kpVars, ccVars, monVars, sdVars,
                       vjVars, enVars>>

\* README.md:238-242
RunHealthChecks == Run("health")

\* monitoring.js:421-428
RunCitationReadiness == Run("citation")

\* part_001:128-156
RunContentCoverage == Run("coverage")

\* competitor_gap.js:133-143
RunCompetitorGaps == Run("gap")

AnNext ==
    \/ RunHealthChecks
    \/ RunCitationReadiness
    \/ RunContentCoverage
    \/ RunCompetitorGaps

SpecAn == AnInit /\ [][AnNext]_vars

----------------------------------------------------------------------------
(* Properties of the analyzers *)

----------------------------------------------------------------------------
(* Verifier utilities: validateJsonFile                                     *)
(* A file is "absent", "malformed" (JSON.parse throws on its text) or      *)
(* "parsed" with the value JSON.parse returns.  The input of a call is the *)
(* data file, the schema file schemas/<schemaName>.json, whether           *)
(* require('ajv') succeeds, and whether the data conforms to the schema.   *)

AbsentFile == [state |-> "absent"]
MalformedFile == [state |-> "malformed"]
ParsedFile(value) == [state |-> "parsed", value |-> value]

\* values of JSON files: an object, abstracted to its kind, or null
JsonObject(kind) == [json |-> "object", kind |-> kind]

\* lines 11-24: null when require('ajv') throws
getAjv(input) == input.ajvInstalled

\* lines 31-40: <<>> stands for null
loadSchema(input) ==
    IF input.schemaFile.state = "parsed" THEN <<input.schemaFile.value>>
    ELSE <<>>

\* !schema: null and the other falsy values
Falsy(schema) == schema = <<>> \/ schema[1].json = "null"

\* a fallback that reports the file as not valid
WithoutValidator_Strict(result) ==
    [result EXCEPT !.errors = Append(@, [type |-> "warning"])]

\* lines 68-73: the fallback without Ajv
WithoutValidator(result) ==
    [result EXCEPT !.valid = TRUE,
                   !.errors = Append(@, [type |-> "warning"])]

\* line 76: validator.compile(schema) throws on a schema Ajv rejects
CompileThrows(schema) == schema.kind = "unknown-keywords"

\* lines 48-84; data is <<>> for null
validateJsonFile(input) ==
    LET result == [valid |-> FALSE, errors |-> <<>>, data |-> <<>>]
    IN  IF input.dataFile.state # "parsed"
        THEN [result EXCEPT !.errors = <<[type |-> "parse"]>>]
        ELSE LET loaded == [result EXCEPT !.data = <<input.dataFile.value>>]
             IN  IF Falsy(loadSchema(input))
                 THEN [loaded EXCEPT !.errors = <<[type |-> "schema"]>>]
                 ELSE IF ~getAjv(input)
                      THEN WithoutValidator(loaded)
                      ELSE IF CompileThrows(loadSchema(input)[1])
                           THEN [threw |-> "Error"]
                      ELSE IF input.conforms
                           THEN [loaded EXCEPT !.valid = TRUE]
                           ELSE [loaded EXCEPT
                                    !.errors = <<[type |-> "validation"]>>]

----------------------------------------------------------------------------
(* Inputs of the verifier *)

SchemaNames == {"customer", "site_snapshot", "issues"}

VJInputs ==
    [ dataFile : { AbsentFile, MalformedFile, ParsedFile(JsonNull),
                   ParsedFile(JsonObject("customer")),
                   ParsedFile(JsonObject("site_snapshot")) },
      schemaName : SchemaNames,
      schemaFile : { AbsentFile, MalformedFile, ParsedFile(JsonNull),
                     ParsedFile(JsonObject("schema")),
                     ParsedFile(JsonObject("unknown-keywords")) },
      ajvInstalled : BOOLEAN,
      conforms : BOOLEAN ]

VJInit ==
    /\ CrawlIdle /\ KPIdle /\ CCIdle /\ AnIdle /\ MonIdle /\ SdIdle /\ EnIdle
    /\ vjInput \in VJInputs
    /\ vjOutput = <<>>

Returned(outcome) == ~Has(outcome, "threw")

\* one call of validateJsonFile(dataPath, schemaName)
ValidateJsonFile ==
    /\ vjOutput = <<>>
    /\ vjOutput' = <<validateJsonFile(vjInput)>>
    /\ UNCHANGED <<vjInput, crawlVars, kpVars, ccVars, anVars, monVars,
                   sdVars, enVars>>

VJNext == ValidateJsonFile
SpecVJ == VJInit /\ [][VJNext]_vars

----------------------------------------------------------------------------
(* Properties of the verifier *)

Warned(result) ==
    \E k \in 1..Len(result.errors) : result.errors[k].type = "warning"

FallbackCase ==
    /\ vjOutput # <<>>
    /\ ~vjInput.ajvInstalled
    /\ vjInput.dataFile.state = "parsed"

SchemaLoads ==
    /\ vjInput.schemaFile.state = "parsed"
    /\ vjInput.schemaFile.value # JsonNull

\* C20, as stated: with the validator library unavailable, for every
\* readable and parseable data file and every schema name,
\* validateJsonFile returns valid = true together with a warning entry; it
\* returns and never throws.
C20_AlwaysValidWithoutValidator ==
    FallbackCase =>
        /\ Returned(vjOutput[1])
        /\ vjOutput[1].valid
        /\ Warned(vjOutput[1])

\* C20, amended: with the validator library unavailable, for every
\* readable and parseable data file and every schema name whose schema file
\* loads, validateJsonFile returns valid = true with exactly a warning entry
\* and the parsed data; when the schema file does not load it returns
\* valid = false with a schema error and no warning; it always returns.
C20_ValidWhenSchemaLoads ==
    FallbackCase =>
        /\ Returned(vjOutput[1])
        /\ vjOutput[1].data = <<vjInput.dataFile.value>>
        /\ SchemaLoads =>
               /\ vjOutput[1].valid
               /\ vjOutput[1].errors = <<[type |-> "warning"]>>
        /\ ~SchemaLoads =>
               /\ ~vjOutput[1].valid
               /\ vjOutput[1].errors = <<[type |-> "schema"]>>

\* without the library a data file that does not conform to its schema, the
\* schema being present, has been reported valid with a warning
C20_Witness ==
    /\ FallbackCase /\ SchemaLoads
    /\ ~vjInput.conforms
    /\ vjOutput[1].valid
    /\ Warned(vjOutput[1])

----------------------------------------------------------------------------
(* Properties of the score comparison *)

\* the baseline a check of the current state compares with
LoadedBaseline == loadBaseline(monConfig, monFiles)[1]

\* the first non-zero value of the sequence, else 0
RECURSIVE FirstNonZero(_)
FirstNonZero(values) ==
    IF values = <<>> THEN 0
    ELSE IF Head(values) # 0 THEN Head(values)
    ELSE FirstNonZero(Tail(values))

ChainValue(s) ==
    FirstNonZero(<<SectionValue(s, "health_checks", "health_score"),
                   SectionValue(s, "citation_readiness", "citation_score"),
                   SectionValue(s, "content_coverage", "coverage_score")>>)

ScoreEntries(diff) ==
    SelectSeq(diff.changes, LAMBDA c : c.type \in MetricSet)

\* the two snapshots differ in the score of one analyzer
AnalyzerScoreDiffers(a, b) ==
    \/ SectionValue(a, "health_checks", "health_score")
           # SectionValue(b, "health_checks", "health_score")
    \/ SectionValue(a, "citation_readiness", "citation_score")
           # SectionValue(b, "citation_readiness", "citation_score")
    \/ SectionValue(a, "content_coverage", "coverage_score")
           # SectionValue(b, "content_coverage", "coverage_score")

\* C21: in every Diff the three score entries are all present or all
\* absent; when present they are, in the order health_score, citation_score,
\* content_coverage_score, entries with the same baseline, current and
\* delta: the first non-zero value of the chain health, citation, coverage
\* of the baseline and of the current snapshot; they are absent exactly
\* when the two chain values are equal, whatever the later scores are.
C21_ScoreEntriesShareChain ==
    Compared =>
        LET entries == ScoreEntries(monLast.result.diff)
            current == ChainValue(monLast.snapshot)
            baseline == ChainValue(LoadedBaseline)
        IN  /\ Len(entries) \in {0, 3}
            /\ Len(entries) = 0 <=> current = baseline
            /\ DOMAIN monLast.result.diff.summary.scores
                   = {entries[k].type : k \in 1..Len(entries)}
            /\ Len(entries) = 3 =>
                   \A k \in 1..3 :
                       /\ entries[k].type = Metrics[k]
                       /\ entries[k].baseline = baseline
                       /\ entries[k].current = current
                       /\ entries[k].delta = current - baseline
                       /\ monLast.result.diff.summary.scores[Metrics[k]]
                              = [baseline |-> baseline, current |-> current,
                                 delta |-> current - baseline]

\* a check whose snapshot differs from the baseline in the citation score
\* only, behind an equal non-zero health score, has no score entry, after
\* an earlier check recorded three identical score entries
C21_Witness ==
    /\ Compared
    /\ AnalyzerScoreDiffers(monLast.snapshot, LoadedBaseline)
    /\ ScoreEntries(monLast.result.diff) = <<>>
    /\ \E k \in 1..Len(HistoryOf(monConfig)) :
           LET e == ScoreEntries(HistoryOf(monConfig)[k].diff)
           IN  /\ Len(e) = 3
               /\ e[1].delta = e[2].delta /\ e[2].delta = e[3].delta

----------------------------------------------------------------------------
(* Properties of the thin content check *)

\* the pages of the snapshot the thin_content issues of the result name
ThinReported ==
    { k \in 1..Len(anSnapshot.pages) :
        \E i \in 1..Len(anResults.health[1].issues) :
            /\ anResults.health[1].issues[i].type = "thin_content"
            /\ anResults.health[1].issues[i].page = anSnapshot.pages[k].url }

NumThinIssues ==
    Cardinality({ i \in 1..Len(anResults.health[1].issues) :
                    anResults.health[1].issues[i].type = "thin_content" })

\* status_code 200 and a word count in lo..99
ThinPages(lo) ==
    { k \in 1..Len(anSnapshot.pages) :
        /\ anSnapshot.pages[k].status_code = 200
        /\ Has(anSnapshot.pages[k], "word_count")
        /\ anSnapshot.pages[k].word_count \in lo..99 }

ScoreIsFlooredSum ==
    anResults.health[1].health_score =
        Max(0, 100 - SumPenalties(anResults.health[1].issues))

\* C22: the health checks emit one thin_content issue (low, -3) for every
\* page with status_code 200 and a word count in 0..99, and for no other
\* page; the final health score is max(0, 100 - the sum of the penalties).
C22_ThinContentBelow100 ==
    anResults.health # <<>> =>
        /\ ThinReported = ThinPages(0)
        /\ NumThinIssues = Cardinality(ThinPages(0))
        /\ ScoreIsFlooredSum

\* what the code does: the pages reported are those with 1 to 99 words
ThinContentFrom1To99 ==
    anResults.health # <<>> =>
        /\ ThinReported = ThinPages(1)
        /\ NumThinIssues = Cardinality(ThinPages(1))
        /\ \A i \in 1..Len(anResults.health[1].issues) :
               anResults.health[1].issues[i].type = "thin_content" =>
                   /\ anResults.health[1].issues[i].severity = "low"
                   /\ HealthPenalty(anResults.health[1].issues[i].type) = 3
        /\ ScoreIsFlooredSum

----------------------------------------------------------------------------
(* Properties of the key page score *)

\* the URL has no path segments after the host, or ends in '/'
HasRootBonus(url) == Len(url) = 1 \/ EndsWithSlash(url)

\* the score of the specification, in tenths: min(word_count/10, 40)
\* + 10 * internal_links + 20 if H1 + 10 if H2 + 15 for the root path
SpecifiedScore(page) ==
    Min(page.word_count, 400)
    + page.internal_links * 100
    + (IF Len(page.h1) > 0 THEN 200 ELSE 0)
    + (IF Len(page.h2) > 0 THEN 100 ELSE 0)
    + (IF HasRootBonus(page.url) THEN 150 ELSE 0)

\* the score of the code without the addition of line 45
ScoreWithoutBonus(page) ==
    ContentScore(page) - (IF HomepageTest(page.url) THEN 150 ELSE 0)

\* C25: the importance score of every key page is the rounded sum
\* min(word_count/10, 40) + 10 * internal_links + 20 if H1 + 10 if H2, plus
\* 15 exactly when the URL has no path segments after the host or ends in
\* '/'; a page with path segments and no trailing slash gets no bonus.
C25_BonusOnlyForRootPath ==
    kpOutput # <<>> =>
        \A j \in 1..Len(kpOutput[1]) :
            \E i \in 1..Len(kpInput) :
                /\ kpInput[i].url = kpOutput[1][j].url
                /\ IsKeyCandidate(kpInput[i])
                /\ kpOutput[1][j].importance_score
                       = RoundTenths(SpecifiedScore(kpInput[i]))

\* what the code does: every key page gets the 15 points
BonusForEveryPage ==
    kpOutput # <<>> =>
        \A j \in 1..Len(kpOutput[1]) :
            \E i \in 1..Len(kpInput) :
                /\ kpInput[i].url = kpOutput[1][j].url
                /\ IsKeyCandidate(kpInput[i])
                /\ kpOutput[1][j].importance_score
                       = RoundTenths(ScoreWithoutBonus(kpInput[i]) + 150)

----------------------------------------------------------------------------
(* Properties of the documented thresholds *)

\* the last check compared under the thresholds of scheduler.md
ComparedAsDocumented ==
    /\ Compared
    /\ monConfig[1].monitoring.alert_thresholds = DocumentedThresholds

\* the changes of the given type in the Diff of the last check
ChangesOf(type) ==
    { k \in 1..Len(monLast.result.diff.changes) :
        monLast.result.diff.changes[k].type = type }

\* C24: under the documented thresholds (0, 10, 1) a check raises the
\* critical alert on any new issue (issues delta >= 1), a warning when the
\* score drops by more than 10 points, and the pages-removed warning when
\* any page is removed (page-count delta <= -1).
C24_DocumentedThresholdsAlert ==
    ComparedAsDocumented =>
        LET diff == monLast.result.diff
            alerts == monLast.result.alerts
        IN  /\ (\E k \in ChangesOf("issues_count") :
                    diff.changes[k].delta >= 1)
                   <=> AlertsWith(alerts, "critical", "new issues detected")
                           # {}
            /\ (\E k \in 1..Len(diff.changes) :
                    /\ diff.changes[k].type \in MetricSet
                    /\ diff.changes[k].delta < -10)
                   <=> AlertsWith(alerts, "warning", "dropped by points") # {}
            /\ (\E k \in ChangesOf("page_count") :
                    diff.changes[k].delta <= -1)
                   <=> AlertsWith(alerts, "warning", "pages removed") # {}

\* what the code does under the documented thresholds: the pages-removed
\* warning needs a page-count delta of -2 or less
DocumentedThresholdsNeedTwoPages ==
    ComparedAsDocumented =>
        LET diff == monLast.result.diff
            alerts == monLast.result.alerts
        IN  /\ (\E k \in ChangesOf("issues_count") :
                    diff.changes[k].delta >= 1)
                   <=> AlertsWith(alerts, "critical", "new issues detected")
                           # {}
            /\ (\E k \in 1..Len(diff.changes) :
                    /\ diff.changes[k].type \in MetricSet
                    /\ diff.changes[k].delta < -10)
                   <=> AlertsWith(alerts, "warning", "dropped by points") # {}
            /\ (\E k \in ChangesOf("page_count") :
                    diff.changes[k].delta <= -2)
                   <=> AlertsWith(alerts, "warning", "pages removed") # {}

----------------------------------------------------------------------------
(* Properties of checks on snapshots that carry no audit results *)

AuditFields ==
    {"health_checks", "citation_readiness", "content_coverage",
     "compilation_summary"}

\* a snapshot as the crawler and the enrichment steps leave it
IsCrawlerSnapshot(s) == DOMAIN s \cap AuditFields = {}

ComparedCrawlerSnapshots ==
    /\ Compared
    /\ IsCrawlerSnapshot(monLast.snapshot)
    /\ IsCrawlerSnapshot(LoadedBaseline)

\* C27: when neither the current snapshot nor the baseline carries
\* health_checks, citation_readiness, content_coverage or
\* compilation_summary, the Diff holds only page_count and
\* structured_data_count changes, no score entry in its summary, and the
\* only alert of the check is the pages-removed warning.
C27_CrawlerSnapshotsOnlyCounts ==
    ComparedCrawlerSnapshots =>
        LET diff == monLast.result.diff
            alerts == monLast.result.alerts
        IN  /\ \A k \in 1..Len(diff.changes) :
                   diff.changes[k].type
                       \in {"page_count", "structured_data_count"}
            /\ DOMAIN diff.summary.scores = {}
            /\ \A k \in 1..Len(alerts) :
                   /\ alerts[k].level = "warning"
                   /\ alerts[k].message.text = "pages removed"
            /\ Len(alerts) <= 1

\* a crawler snapshot with fewer pages and less structured data than the
\* crawler snapshot in the baseline has been checked: both counts changed
\* and the pages-removed warning is the alert
C27_Witness ==
    /\ ComparedCrawlerSnapshots
    /\ ChangesOf("page_count") # {}
    /\ ChangesOf("structured_data_count") # {}
    /\ Len(monLast.result.diff.changes) = 2
    /\ monLast.result.status = "alerts"
    /\ Len(monLast.result.alerts) = 1
    /\ monLast.result.alerts[1].message.text = "pages removed"

----------------------------------------------------------------------------
(* Frame of a monitoring check *)

\* the step is a run of runMonitoringCheck
IsCheckStep == monClock' = monClock + 1 /\ monLast'.op = "runCheck"

\* the history after one entry has been pushed on it and the limit applied
Pushed(history, entry) ==
    IF Len(history) < HistoryLimit THEN Append(history, entry)
    ELSE Append(Tail(history), entry)

\* the config files differ in their history at most
SameButHistory(old, new) ==
    /\ old # <<>> /\ new # <<>>
    /\ DOMAIN new[1] = DOMAIN old[1] \cup {"history"}
    /\ \A f \in DOMAIN old[1] \ {"history"} : new[1][f] = old[1][f]

\* C28: a check that returns 'disabled' or 'no_baseline' compares nothing
\* and writes nothing: the config file, its history and the baseline files
\* are unchanged; a check that returns 'ok' or 'alerts' pushes exactly one
\* entry {checked_at, diff, alerts}, that of this check, on the history
\* (dropping the oldest entry when there were 30) and changes no other field
\* of the config and no other file.
C28_CheckFrame ==
    [][IsCheckStep =>
          /\ monLast'.result.status \in {"disabled", "no_baseline"} =>
                 /\ ~Has(monLast'.result, "diff")
                 /\ monConfig' = monConfig
                 /\ monLog' = monLog
                 /\ monFiles' = monFiles
          /\ monLast'.result.status \in {"ok", "alerts"} =>
                 /\ SameButHistory(monConfig, monConfig')
                 /\ HistoryOf(monConfig')
                        = Pushed(HistoryOf(monConfig),
                                 [checked_at |-> monClock,
                                  diff |-> monLast'.result.diff,
                                  alerts |-> monLast'.result.alerts])
                 /\ Len(monLog') = Len(monLog) + 1
                 /\ monFiles' = monFiles
          /\ monLast'.result.status
                 \in {"disabled", "no_baseline", "ok", "alerts"}]_vars

\* a check has returned 'alerts' and its entry is the newest of a full
\* history, behind entries of earlier checks, with the monitoring section of
\* the config as it was at the start
C28_Witness ==
    /\ Compared
    /\ monLast.result.status = "alerts"
    /\ Len(HistoryOf(monConfig)) = HistoryLimit
    /\ HistoryOf(monConfig)[HistoryLimit].checked_at = monClock - 1
    /\ HistoryOf(monConfig)[HistoryLimit].alerts = monLast.result.alerts
    /\ HistoryOf(monConfig)[1].checked_at < monClock - 1
    /\ monConfig[1].monitoring.alert_thresholds = StrictThresholds

----------------------------------------------------------------------------
(* Properties of the content coverage of fetch-failed records *)

\* the records of the snapshot that the catch branch of the crawler wrote
\* and whose URL passes the filter of content pages
FailedContentPages ==
    { k \in 1..Len(ccSnapshot.pages) :
        /\ ccSnapshot.pages[k] \in
               { ErrorRecord(ccSnapshot.pages[k].url, m) : m \in ErrorMessages }
        /\ IsContentPage(ccSnapshot.pages[k]) }

\* the issues of the result that name the page, as [type, severity]
IssuesAbout(page) ==
    LET idx == { i \in 1..Len(ccResult[1].issues) :
                   ccResult[1].issues[i].page = page.url }
    IN  [ kinds |-> { <<ccResult[1].issues[i].type,
                        ccResult[1].issues[i].severity>> : i \in idx },
          count |-> Cardinality(idx) ]

\* C30: a fetch-failed record (status_code 0, url and error only) whose
\* URL has no asset extension is among the content pages and yields exactly
\* the three high issues missing_meta_description, missing_h1 and
\* missing_title, no thin_content issue; alone in a snapshot it lowers the
\* score by 45, to 55.
C30_ErrorRecordIsContentPage ==
    Analyzed =>
        \A k \in FailedContentPages :
            /\ \E j \in 1..Len(ccResult[1].contentPages) :
                   ccResult[1].contentPages[j] = ccSnapshot.pages[k]
            /\ IssuesAbout(ccSnapshot.pages[k]).kinds =
                   { <<"missing_meta_description", "high">>,
                     <<"missing_h1", "high">>,
                     <<"missing_title", "high">> }
            /\ IssuesAbout(ccSnapshot.pages[k]).count = 3
            /\ NumHigh >= 3
            /\ Len(ccSnapshot.pages) = 1 => Score = 100 - 45

\* a snapshot holding a fetch-failed record next to a fetched page has been
\* analysed, and the record has its three issues
C30_Witness ==
    /\ Analyzed
    /\ Len(ccSnapshot.pages) = 2
    /\ \E k \in FailedContentPages :
           /\ IssuesAbout(ccSnapshot.pages[k]).count = 3
           /\ ~Has(ccSnapshot.pages[k], "word_count")
    /\ \E i \in 1..Len(ccResult[1].issues) :
           ccResult[1].issues[i].type = "thin_content"

----------------------------------------------------------------------------
(* Enrichment of the snapshot: the structured data collector and the key   *)
(* page detector, run one after the other on data/site_snapshot.json       *)
(*                                                                          *)
(* Besides the fields the extractors read, a document holds the content of *)
(* its publisher and author <meta> tags (publisher, author: <<>> or        *)
(* <<string>>); a JSON-LD object may hold publisher (the name of its       *)
(* publisher member) and author (a string).                                *)

\* entities.add(e) and the includes test of main: insertion order, no
\* duplicates
AddEntity(entities, e) ==
    IF \E k \in 1..Len(entities) : entities[k] = e THEN entities
    ELSE Append(entities, e)

RECURSIVE AddEntities(_, _)
AddEntities(entities, es) ==
    IF es = <<>> THEN entities
    ELSE AddEntities(AddEntity(entities, Head(es)), Tail(es))

\* lines 575-596: the entities of one parsed JSON-LD block; reading
\* parsed['@type'] of null throws into the empty catch of the loop
BlockEntities(value) ==
    IF ThrowsOnType(value) THEN <<>>
    ELSE (IF Has(value, "at_type") /\ value.at_type # ""
          THEN <<value.at_type>> ELSE <<>>)
         \o (IF Has(value, "publisher") THEN <<value.publisher>> ELSE <<>>)
         \o (IF Has(value, "author") THEN <<value.author>> ELSE <<>>)

RECURSIVE JsonLdKeyEntities(_)
JsonLdKeyEntities(blocks) ==
    IF blocks = <<>> THEN <<>>
    ELSE (IF Head(blocks).valid THEN BlockEntities(Head(blocks).data)
          ELSE <<>>)
         \o JsonLdKeyEntities(Tail(blocks))

\* lines 556-601
extractKeyEntities(html) ==
    AddEntities(<<>>, html.publisher \o html.author
                      \o JsonLdKeyEntities(html.jsonld))

----------------------------------------------------------------------------
(* Key page detector: extractEntities                                       *)
(* The words of a text of the model and the segment of a path token are    *)
(* given by tables; the length of a word is the length of its string.      *)

\* String.prototype.split(/\s+/) of the texts of the model
WordsOf(text) ==
    IF text = Text(12, 12) THEN <<"About", "a", "team">>
    ELSE IF text = Text(10, 10) THEN <<"Blog", "posts">>
    ELSE IF text = Text(8, 8) THEN <<"our", "blog">>
    ELSE IF text = Text(7, 7) THEN <<"contact">>
    ELSE IF text = Text(6, 6) THEN <<"prices">>
    ELSE <<"">>

\* String.prototype.toLowerCase of a word
LowerCase(word) ==
    IF word = "About" THEN "about"
    ELSE IF word = "Blog" THEN "blog"
    ELSE IF word = "Our-Team" THEN "our-team"
    ELSE word

\* replace(/[-_]/g, ' ')
DashesToSpaces(word) == IF word = "our-team" THEN "our team" ELSE word

\* the path segment a path token stands for; "" for the trailing slash
SegmentOf(token) ==
    CASE token = "/" -> ""
      [] token = "/blog" -> "blog"
      [] token = "/post" -> "post"
      [] token = "/about" -> "about"
      [] token = "/a" -> "a"
      [] token = "/Our-Team" -> "Our-Team"
      [] token = "/index.html" -> "index.html"

\* line 80: url.pathname.split('/').filter(s => s && s !== 'index.html')
PathSegments(url) ==
    LET segs == [k \in 1..(Len(url) - 1) |-> SegmentOf(url[k + 1])]
    IN  SelectSeq(segs, LAMBDA seg : seg # "" /\ seg # "index.html")

\* an entity of the detector
Entity(type, value, display, page) ==
    [type |-> type, value |-> value, display |-> display, source |-> page.url]

\* the loop state of extractEntities
NoEntities == [entities |-> <<>>, seen |-> {}]

\* an add that does not look at the set of seen values
AddIfNew_Always(st, type, value, display, minLength, page) ==
    IF Len(display) > minLength
    THEN [ entities |-> Append(st.entities,
                               Entity(type, value, display, page)),
           seen |-> st.seen \cup {display} ]
    ELSE st

\* lines 85-93, 100-108, 117-125, 135-143: the guarded push
AddIfNew(st, type, value, display, minLength, page) ==
    IF Len(display) > minLength /\ display \notin st.seen
    THEN [ entities |-> Append(st.entities,
                               Entity(type, value, display, page)),
           seen |-> st.seen \cup {display} ]
    ELSE st

\* lines 83-94: the segments of the path, value being the segment as found
RECURSIVE AddSegments(_, _, _)
AddSegments(st, segs, page) ==
    IF segs = <<>> THEN st
    ELSE AddSegments(AddIfNew(st, "url_path", Head(segs),
                              DashesToSpaces(LowerCase(Head(segs))), 2, page),
                     Tail(segs), page)

\* the words of one text, lower-cased, as entities of the given type
RECURSIVE AddWords(_, _, _, _)
AddWords(st, words, type, page) ==
    IF words = <<>> THEN st
    ELSE AddWords(AddIfNew(st, type, LowerCase(Head(words)),
                           LowerCase(Head(words)), 3, page),
                  Tail(words), type, page)

RECURSIVE AddHeadings(_, _, _)
AddHeadings(st, headings, page) ==
    IF headings = <<>> THEN st
    ELSE AddHeadings(AddWords(st, WordsOf(Head(headings)), "heading", page),
                     Tail(headings), page)

\* lines 78-147: the body of pages.forEach
AddPageEntities(st, page) ==
    LET afterPath == AddSegments(st, PathSegments(page.url), page)
        afterTitle ==
            IF Has(page, "title") /\ page.title.len > 0
            THEN AddWords(afterPath, WordsOf(page.title), "title", page)
            ELSE afterPath
        afterH1 ==
            IF Has(page, "h1") THEN AddHeadings(afterTitle, page.h1, page)
            ELSE afterTitle
    IN  IF Has(page, "h2") THEN AddHeadings(afterH1, page.h2, page)
        ELSE afterH1

RECURSIVE ForEachEntityPage(_, _)
ForEachEntityPage(st, ps) ==
    IF ps = <<>> THEN st
    ELSE ForEachEntityPage(AddPageEntities(st, Head(ps)), Tail(ps))

\* lines 74-150
extractEntities(ps) == ForEachEntityPage(NoEntities, ps).entities

----------------------------------------------------------------------------
(* Inputs of the enrichment: a site and the snapshot the crawler made of it *)

MaxEnPages == 2     \* pages of the site

\* a JSON string in the snapshot file
JsonString(s) == [json |-> "string", string |-> s]

EnDoc(title, h1, jsonld, publisher, author, og) ==
    [ title |-> title, h1 |-> h1, jsonld |-> jsonld, words |-> 120,
      publisher |-> publisher, author |-> author,
      og |-> og, twitter |-> NoTags, microdata |-> <<>> ]
    @@ BareDoc(<<>>)

EnWebPool ==
    { [ url |-> <<HostH, "/">>, status |-> 200,
        doc |-> EnDoc(<<Text(12, 12)>>, <<Text(8, 8)>>,
                      << ValidBlock([publisher |-> "Acme"]
                                    @@ JsonLd("Organization", SchemaOrg)),
                         MalformedBlock >>,
                      <<"Acme">>, <<>>, "og:type" :> "article") ],
      [ url |-> <<HostH, "/blog", "/post">>, status |-> 200,
        doc |-> EnDoc(<<Text(10, 10)>>, <<Text(8, 8)>>,
                      << ValidBlock(JsonLd("FAQPage", "")),
                         ValidBlock([author |-> "Jane"]
                                    @@ JsonLd("Person", "")) >>,
                      <<>>, <<"Jane">>, NoTags) ],
      [ url |-> <<HostH, "/Our-Team">>, status |-> 200,
        doc |-> EnDoc(<<Text(7, 7)>>, <<>>,
                      << ValidBlock(JsonLd("HowTo", "")),
                         ValidBlock(JsonNull) >>,
                      <<>>, <<>>, NoTags) ],
      [ url |-> <<HostH, "/blog">>, status |-> 200,
        doc |-> EnDoc(<<Text(10, 10)>>, <<Text(6, 6)>>, <<>>, <<>>, <<>>,
                      NoTags) ],
      [ url |-> <<HostH, "/about">>, status |-> 404,
        doc |-> EnDoc(<<Text(12, 12)>>, <<>>,
                      <<ValidBlock(JsonLd("Organization", SchemaOrg))>>,
                      <<>>, <<>>, NoTags) ],
      [ url |-> <<HostH, "/a">>, status |-> 0, doc |-> BareDoc(<<>>) ] }

EnWebs == { w \in SeqsUpTo(EnWebPool, MaxEnPages) : DistinctUrls(w) }

\* crawler.js crawl, lines 157-168 and 178-185: the record of a page of the
\* site; status 0 stands for a fetch that threw during the crawl
CrawledPage(w) ==
    IF w.status = 0 THEN ErrorRecord(w.url, "fetch failed")
    ELSE PageData(w.url, [status |-> w.status, html |-> w.doc], <<HostH>>)

\* crawler.js main, lines 196-205
CrawlerSnapshot(web) ==
    [ website_url |-> <<HostH>>,
      pages_crawled |-> Len(web),
      pages |-> [k \in 1..Len(web) |-> CrawledPage(web[k])],
      robots_txt |-> [exists |-> FALSE],
      sitemaps |-> <<>>,
      key_entities |-> <<>> ]

ColIdle == [pc |-> "idle"]

EnInit ==
    /\ CrawlIdle /\ KPIdle /\ CCIdle /\ AnIdle /\ MonIdle /\ SdIdle /\ VjIdle
    /\ enWeb \in EnWebs
    /\ enFile = CrawlerSnapshot(enWeb)
    /\ enCol = ColIdle
    /\ enLog = <<>>

----------------------------------------------------------------------------
(* The collector, one action per step of main (part_002, lines 603-654)    *)

EnUnchanged == UNCHANGED <<crawlVars, kpVars, ccVars, anVars, monVars,
                           sdVars, vjVars>>

HasRun(program) == \E k \in 1..Len(enLog) : enLog[k].program = program

\* no enrichment program is in the middle of its run
Sequential == enCol.pc # "loop"

\* the page of the snapshot in memory the for loop is at
ColPage == enCol.snapshot.pages[enCol.i]

\* a catch branch that leaves the page as it was
FailedPage_Untouched(page) == page

\* lines 637-640: the catch branch of the loop body
FailedPage(page) == [structured_data |-> <<>>] @@ page

\* lines 624-626: page.structured_data = structuredData
ExtractedPage(page, html) ==
    [structured_data |-> extractStructuredData(html)] @@ page

\* lines 629-635: the entities of the page are merged into allEntities
MergedEntities(allEntities, html) ==
    AddEntities(allEntities, extractKeyEntities(html))

\* lines 607-613: the snapshot is read
CollectorStart ==
    /\ enCol.pc = "idle"
    /\ enCol' = [ pc |-> "loop", snapshot |-> enFile, i |-> 1,
                  allEntities |-> <<>>, fetched |-> <<>>, failed |-> {} ]
    /\ UNCHANGED <<enWeb, enFile, enLog>>
    /\ EnUnchanged

\* line 616: if (page.status_code !== 200) continue
CollectorSkip ==
    /\ enCol.pc = "loop" /\ enCol.i <= Len(enCol.snapshot.pages)
    /\ ColPage.status_code # 200
    /\ enCol' = [enCol EXCEPT !.i = @ + 1]
    /\ UNCHANGED <<enWeb, enFile, enLog>>
    /\ EnUnchanged

\* lines 620-635: the page is fetched and its data extracted
CollectorFetchOk ==
    /\ enCol.pc = "loop" /\ enCol.i <= Len(enCol.snapshot.pages)
    /\ ColPage.status_code = 200
    /\ LET html == enWeb[enCol.i].doc
       IN  enCol' = [enCol EXCEPT
                        !.snapshot.pages[enCol.i] = ExtractedPage(@, html),
                        !.allEntities = MergedEntities(@, html),
                        !.fetched = Append(@, ColPage.url),
                        !.i = @ + 1]
    /\ UNCHANGED <<enWeb, enFile, enLog>>
    /\ EnUnchanged

\* lines 620-621 and 637-640: fetchPage throws
CollectorFetchFail ==
    /\ enCol.pc = "loop" /\ enCol.i <= Len(enCol.snapshot.pages)
    /\ ColPage.status_code = 200
    /\ enCol' = [enCol EXCEPT
                    !.snapshot.pages[enCol.i] = FailedPage(@),
                    !.fetched = Append(@, ColPage.url),
                    !.failed = @ \cup {enCol.i},
                    !.i = @ + 1]
    /\ UNCHANGED <<enWeb, enFile, enLog>>
    /\ EnUnchanged

\* lines 643-647: the loop is over, the snapshot is written
CollectorWrite ==
    /\ enCol.pc = "loop" /\ enCol.i > Len(enCol.snapshot.pages)
    /\ enFile' = [ key_entities |->
                     [k \in 1..Len(enCol.allEntities) |->
                         JsonString(enCol.allEntities[k])] ]
                 @@ enCol.snapshot
    /\ enCol' = [enCol EXCEPT !.pc = "done"]
    /\ enLog' = Append(enLog, [program |-> "collector"])
    /\ UNCHANGED enWeb
    /\ EnUnchanged

\* key page detector, main (part_000, lines 155-173)
RunKeyPages ==
    /\ Sequential /\ ~HasRun("key_pages")
    /\ enFile' = [ key_pages |-> detectKeyPages(enFile.pages),
                   key_entities |-> extractEntities(enFile.pages) ]
                 @@ enFile
    /\ enLog' = Append(enLog, [program |-> "key_pages"])
    /\ UNCHANGED <<enWeb, enCol>>
    /\ EnUnchanged

\* citation readiness, command line (monitoring.js, lines 421-428), run on
\* the snapshot as it is; not twice in a row
RunCitationOnFile ==
    /\ Sequential
    /\ IF enLog = <<>> THEN TRUE
       ELSE enLog[Len(enLog)].program # "citation"
    /\ enLog' = Append(enLog, [ program |-> "citation",
                                enriched |-> HasRun("collector"),
                                result |-> checkCitationReadiness(enFile) ])
    /\ UNCHANGED <<enWeb, enFile, enCol>>
    /\ EnUnchanged

EnNext ==
    \/ CollectorStart \/ CollectorSkip \/ CollectorFetchOk
    \/ CollectorFetchFail \/ CollectorWrite
    \/ RunKeyPages \/ RunCitationOnFile

SpecEn == EnInit /\ [][EnNext]_vars

----------------------------------------------------------------------------
(* Properties of the collector loop *)

\* the step is one iteration of the for loop of the collector
IsLoopStep ==
    /\ enCol.pc = "loop" /\ enCol'.pc = "loop"
    /\ enCol'.i = enCol.i + 1

\* the records differ in their structured_data at most
SameButData(old, new) ==
    /\ DOMAIN new = DOMAIN old \cup {"structured_data"}
    /\ \A f \in DOMAIN old \ {"structured_data"} : new[f] = old[f]

\* the pages of the site the crawler recorded with status 200
Status200 == { k \in 1..Len(enWeb) : enWeb[k].status = 200 }

\* each iteration of the loop: a page whose status_code is not 200 is not fetched
\* and is left as it was; a status-200 page is fetched once and either gets
\* the data extracted from its HTML or, when the fetch throws, the empty
\* sequence; no other page and no other field changes, nothing is written,
\* and the loop goes on with the next page.
LoopStepFrame ==
    [][IsLoopStep =>
          LET i == enCol.i
              old == enCol.snapshot.pages
              new == enCol'.snapshot.pages
          IN  /\ Len(new) = Len(old)
              /\ \A k \in 1..Len(old) : k # i => new[k] = old[k]
              /\ enFile' = enFile
              /\ old[i].status_code # 200 =>
                     /\ new[i] = old[i]
                     /\ enCol'.fetched = enCol.fetched
              /\ old[i].status_code = 200 =>
                     /\ enCol'.fetched = Append(enCol.fetched, old[i].url)
                     /\ SameButData(old[i], new[i])
                     /\ IF i \in enCol'.failed
                        THEN new[i].structured_data = <<>>
                        ELSE new[i].structured_data
                                 = extractStructuredData(enWeb[i].doc)]_vars

\* the whole run: once the collector has started it works through the
\* pages in order, whatever fetches failed before; when it is done every
\* status-200 page has been fetched exactly once, in order, the failed ones
\* hold the empty sequence, every later status-200 page holds its extracted
\* data, the pages with another status are as the crawler wrote them, and
\* the snapshot in memory has been written to the file.
FailureDoesNotAbort ==
    /\ enCol.pc = "loop" =>
           /\ enCol.i \in 1..(Len(enWeb) + 1)
           /\ enCol.failed \subseteq 1..(enCol.i - 1)
    /\ enCol.pc = "done" =>
           /\ enCol.i = Len(enWeb) + 1
           /\ Len(enCol.fetched) = Cardinality(Status200)
           /\ \A k \in Status200 :
                  \E j \in 1..Len(enCol.fetched) :
                      enCol.fetched[j] = enWeb[k].url
           /\ enCol.failed \subseteq Status200
           /\ \A k \in 1..Len(enWeb) :
                  LET page == enCol.snapshot.pages[k]
                  IN  /\ k \in enCol.failed => page.structured_data = <<>>
                      /\ k \in Status200 \ enCol.failed =>
                             page.structured_data
                                 = extractStructuredData(enWeb[k].doc)
                      /\ k \notin Status200 => page = CrawledPage(enWeb[k])
           /\ HasRun("collector")

\* C23: the collector processes the pages one at a time; a page whose
\* status_code is not 200 keeps its structured_data and is not fetched; a
\* status-200 page whose fetch fails gets the empty sequence and the loop
\* continues with the next page, so that every later status-200 page is
\* still processed and the snapshot is written.
C23_CollectorLoop == LoopStepFrame /\ []FailureDoesNotAbort

\* the fetch of the first page failed, the second page was still
\* processed, and the snapshot with both results is in the file
C23_Witness ==
    /\ enCol.pc = "done"
    /\ enCol.failed = {1}
    /\ Len(enWeb) = MaxEnPages
    /\ CrawledPage(enWeb[1]).structured_data # <<>>
    /\ enFile.pages[1].structured_data = <<>>
    /\ 2 \in Status200
    /\ enFile.pages[2].structured_data # <<>>
    /\ enFile.pages[2].structured_data = extractStructuredData(enWeb[2].doc)

----------------------------------------------------------------------------
(* Properties of citation readiness before and after the enrichment *)

\* the JSON-LD objects in the HTML of the status-200 pages of the site
SiteObjects ==
    UNION { { enWeb[k].doc.jsonld[j].data :
                j \in { n \in 1..Len(enWeb[k].doc.jsonld) :
                          /\ enWeb[k].doc.jsonld[n].valid
                          /\ enWeb[k].doc.jsonld[n].data.json = "object" } } :
            k \in Status200 }

IssueTypesOf(result) ==
    { result.issues[k].type : k \in 1..Len(result.issues) }

\* the flag is set and the issue is not emitted
Detected(result, flag, issue) ==
    /\ result.checks.structured_data[flag]
    /\ issue \notin IssueTypesOf(result)

\* the signals the JSON-LD of the site carries are all detected
SignalsDetected(result) ==
    /\ (\E v \in SiteObjects : v.at_context = SchemaOrg) =>
           Detected(result, "has_schema_org", "missing_schema_org")
    /\ (\E v \in SiteObjects : v.at_type = "Organization") =>
           Detected(result, "has_organization_schema",
                    "missing_organization_schema")
    /\ (\E v \in SiteObjects : v.at_type = "Person") =>
           Detected(result, "has_author_schema", "missing_author_info")
    /\ (\E v \in SiteObjects : v.at_type = "FAQPage") =>
           Detected(result, "has_faq_schema", "missing_faq_schema")
    /\ (\E v \in SiteObjects : v.at_type = "HowTo") =>
           Detected(result, "has_howto_schema", "missing_howto_schema")

\* the runs of citation readiness that returned a result
CitationRuns(enriched) ==
    { k \in 1..Len(enLog) :
        /\ enLog[k].program = "citation"
        /\ enLog[k].enriched = enriched
        /\ Returned(enLog[k].result) }

\* C26: if the HTML of a status-200 page has a valid JSON-LD block with a
\* schema.org @context or with @type Organization, Person, FAQPage or
\* HowTo, citation readiness sets the corresponding has_* flag and omits
\* the corresponding missing_* issue, on the snapshot of the crawler and on
\* the snapshot after the collector has replaced structured_data (no fetch
\* of the collector having failed).
C26_TypesSurviveEnrichment ==
    /\ \A k \in CitationRuns(FALSE) : SignalsDetected(enLog[k].result)
    /\ \A k \in CitationRuns(TRUE) :
           enCol.failed = {} => SignalsDetected(enLog[k].result)

\* what holds: the signals are detected on the snapshot of the crawler
DetectedBeforeEnrichment ==
    \A k \in CitationRuns(FALSE) : SignalsDetected(enLog[k].result)

\* what holds after the collector: on a site whose pages all have status
\* 200 no flag is set, whatever the JSON-LD of the pages
NothingDetectedAfterEnrichment ==
    \A k \in CitationRuns(TRUE) :
        Status200 = 1..Len(enWeb) =>
        \A flag \in {"has_schema_org", "has_organization_schema",
                     "has_author_schema", "has_faq_schema",
                     "has_howto_schema"} :
            ~enLog[k].result.checks.structured_data[flag]

----------------------------------------------------------------------------
(* Properties of key_entities *)

\* the enrichment programs that have run, in order
Enrichers ==
    LET ran == SelectSeq(enLog, LAMBDA e : e.program # "citation")
    IN  [k \in 1..Len(ran) |-> ran[k].program]

KeyEntities == { enFile.key_entities[k] : k \in 1..Len(enFile.key_entities) }

\* the strings the finished collector had gathered, as written to the file
CollectorStrings ==
    { JsonString(enCol.allEntities[k]) : k \in 1..Len(enCol.allEntities) }

IsDetectorEntity(e) == DOMAIN e = {"type", "value", "display", "source"}

\* C29: each enrichment step overwrites key_entities: when the key page
\* detector ran last, after the collector or alone, key_entities holds
\* exactly the {type, value, display, source} entities of the detector for
\* the pages of the snapshot and none of the strings of the collector; when
\* the collector ran last, it holds exactly the strings of the collector
\* and no entity of the detector.  No two entities of the detector have
\* the same display value.
C29_KeyEntitiesOverwritten ==
    /\ Enrichers = <<>> => enFile.key_entities = <<>>
    /\ (Enrichers # <<>> /\ Enrichers[Len(Enrichers)] = "key_pages") =>
           /\ enFile.key_entities = extractEntities(enFile.pages)
           /\ \A e \in KeyEntities : IsDetectorEntity(e)
           /\ HasRun("collector") => KeyEntities \cap CollectorStrings = {}
           /\ \A i, j \in 1..Len(enFile.key_entities) :
                  i # j => enFile.key_entities[i].display
                               # enFile.key_entities[j].display
    /\ (Enrichers # <<>> /\ Enrichers[Len(Enrichers)] = "collector") =>
           /\ KeyEntities = CollectorStrings
           /\ Len(enFile.key_entities) = Len(enCol.allEntities)
           /\ \A e \in KeyEntities : ~IsDetectorEntity(e)

\* the detector has run after a collector that had gathered strings: the
\* file holds the entities of the detector only, among them one for a word
\* that a later page repeats
C29_Witness ==
    /\ Enrichers = <<"collector", "key_pages">>
    /\ enCol.allEntities # <<>>
    /\ Len(enFile.key_entities) >= 3
    /\ Len(enFile.pages) = 2
    /\ Has(enFile.pages[2], "title")
    /\ \E k \in 1..Len(enFile.key_entities) :
           /\ enFile.key_entities[k].display = "blog"
           /\ enFile.key_entities[k].source = enFile.pages[1].url
    /\ \E w \in {"Blog", "blog"} :
           \E j \in 1..Len(WordsOf(enFile.pages[2].title)) :
               WordsOf(enFile.pages[2].title)[j] = w

====
